---- MODULE Spec2Model ----
(***************************************************************************)
(* BSTT compliance dashboard: the ingestion pipeline.                      *)
(*                                                                         *)
(* Two code paths load a source table into the TimeEntry fact table and    *)
(* write an ETLHistory audit record:                                       *)
(*   - process_uploaded_file(upload)       backend/core/services.py        *)
(*   - Command._sync_file(csv_path, clear) backend/core/management/        *)
(*                                         commands/sync_csv.py            *)
(* Each is modelled statement group by statement group, so that the order  *)
(* of the audit write, the delete, the insert and the handlers is the      *)
(* order of the code.                                                      *)
(*                                                                         *)
(* Values.  Text fields hold strings.  Every other field holds an integer: *)
(* a calendar date is the integer yyyymmdd, and Null stands for Python's   *)
(* None / pandas' NaN and NaT / SQL NULL.                                  *)
(***************************************************************************)
EXTENDS Integers, Sequences, FiniteSets, TLC

VARIABLES
    timeEntries,   \* committed rows of the TimeEntry table, in primary-key order
    txEntries,     \* the ingesting connection's view of the table: differs from
                   \* timeEntries only inside transaction.atomic()
    etlHistory,    \* rows of the ETLHistory table, in creation order
    nextId,        \* next primary key of TimeEntry
    pc,            \* position of the running ingestion call, "idle" between calls
    call,          \* arguments and locals of the current (or last) ingestion call
    prev,          \* the arguments of the call before it
    exc,           \* text of the exception being propagated, "" when none
    ret,           \* what the last call gave back to its caller
    nCalls,        \* ingestion calls started so far
    date_value,    \* the date handed to the week functions
    iso,           \* what extract_week_number gave back, <<>> before the call
    display,       \* what get_week_display_date gave back, Null before the call
    frame,         \* a two-site frame after its week columns were computed
    store,         \* committed facts of one year while two ingestions of it run
    writer,        \* the ingestion holding SQLite's write lock, 0 when it is free
    workers,       \* per concurrent ingestion: its path, position and own view
    seen,          \* what the last reader query of the year returned
    qs,            \* the filtered facts handed to the report generator: how
                   \* many stored rows there are of each kind of fact
    sheet,         \* the sheet the generator wrote last
    request,       \* an API request: its filter parameters, and once it is
                   \* answered the view, the status code and the queryset
                   \* the calculator or generator was given
    uploads,       \* rows of the DataUpload table, in primary-key order
    admin          \* the admin handler at work on the uploads: its position,
                   \* the upload in hand, those still to do, the last return

\* The ingestion pipeline's variables.
ingest == <<timeEntries, txEntries, etlHistory, nextId, pc, call, prev, exc, ret, nCalls>>

\* The week functions' variables.
weekVars == <<date_value, iso, display, frame>>

\* Everything an ingestion step leaves alone.
\* The variables of two ingestions of one year running side by side.
concVars == <<store, writer, workers, seen>>

\* The report generator's variables.
reportVars == <<qs, sheet>>

\* The API views' and the upload admin's variables.
webVars == <<request, uploads, admin>>

aux == <<weekVars, concVars, reportVars, webVars>>

vars == <<ingest, aux>>

\* Number of ingestion calls explored.
MaxRuns == 2

\* None / NaN / NaT / NULL.
Null == -1

Years == {2024, 2025}

(***************************************************************************)
(* The TimeEntry model.                                                    *)
(***************************************************************************)
\* str_cols of the ingestion code: the CharFields of TimeEntry.
StrCols ==
    {"ofc_name", "xlc_operation", "date_range", "applicant_id", "last_name",
     "first_name", "full_name", "employee_type_id", "shift_number",
     "bu_dept_name", "allocation_method", "clock_in_local", "clock_in_method",
     "clock_out_local", "clock_out_method", "entry_type"}

DateCols == {"dt_end_cli_work_week", "work_date"}

DatetimeCols == {"dt_time_start", "dt_time_end"}

NumericCols ==
    {"reg_hours", "ot_hours", "dt_hours", "hol_wrk_hours", "total_hours",
     "clock_in_tries", "clock_out_tries"}

\* [f.name for f in TimeEntry._meta.get_fields() if hasattr(f, 'column')]
ModelFields ==
    {"id", "year", "week_number", "week_year"}
        \cup StrCols \cup DateCols \cup DatetimeCols \cup NumericCols

\* Fields declared with null=True.
NullableFields ==
    {"work_date", "week_number", "week_year", "dt_time_start", "dt_time_end"}

\* The value TimeEntry(**record) gives a field that record does not name.
FieldDefault(f) ==
    IF f \in StrCols THEN ""
    ELSE IF f \in {"reg_hours", "ot_hours", "dt_hours", "hol_wrk_hours", "total_hours"}
         THEN 0
    ELSE IF f \in {"clock_in_tries", "clock_out_tries"} THEN 1
    ELSE Null

\* TimeEntry(**record)
TimeEntry(record) ==
    [f \in ModelFields |->
        IF f \in DOMAIN record THEN record[f] ELSE FieldDefault(f)]

(***************************************************************************)
(* Calendar arithmetic of datetime.date on yyyymmdd integers.              *)
(***************************************************************************)
YearOf(d) == d \div 10000

MonthOf(d) == (d \div 100) % 100

DayOf(d) == d % 100

IsLeap(y) == (y % 4 = 0) /\ ((y % 100 # 0) \/ (y % 400 = 0))

DaysInMonth(y, m) ==
    IF m = 2 THEN (IF IsLeap(y) THEN 29 ELSE 28)
    ELSE IF m \in {4, 6, 9, 11} THEN 30 ELSE 31

DaysBeforeYear(y) ==
    (y - 1) * 365 + ((y - 1) \div 4) - ((y - 1) \div 100) + ((y - 1) \div 400)

RECURSIVE DaysBeforeMonth(_, _)
DaysBeforeMonth(y, m) ==
    IF m = 1 THEN 0 ELSE DaysBeforeMonth(y, m - 1) + DaysInMonth(y, m - 1)

\* date.toordinal()
ToOrdinal(d) ==
    DaysBeforeYear(YearOf(d)) + DaysBeforeMonth(YearOf(d), MonthOf(d)) + DayOf(d)

\* date.isoweekday(): Monday 1 .. Sunday 7
IsoWeekday(d) == ((ToOrdinal(d) + 6) % 7) + 1

\* IsoWeek1Monday with week 1 moved to the week of the first Friday.
IsoWeek1MondayFriday(y) ==
    LET firstday == DaysBeforeYear(y) + 1
        firstweekday == (firstday + 6) % 7
        week1monday == firstday - firstweekday
    IN  IF firstweekday > 4 THEN week1monday + 7 ELSE week1monday

\* Ordinal of the Monday that starts ISO week 1 of year y.
IsoWeek1Monday(y) ==
    LET firstday == DaysBeforeYear(y) + 1
        firstweekday == (firstday + 6) % 7
        week1monday == firstday - firstweekday
    IN  IF firstweekday > 3 THEN week1monday + 7 ELSE week1monday

\* date.isocalendar() as <<ISO year, ISO week, ISO weekday>>
IsoCalendar(d) ==
    LET year == YearOf(d)
        today == ToOrdinal(d)
        week == (today - IsoWeek1Monday(year)) \div 7
        day == (today - IsoWeek1Monday(year)) % 7
    IN  IF today < IsoWeek1Monday(year)
        THEN <<year - 1,
               ((today - IsoWeek1Monday(year - 1)) \div 7) + 1,
               ((today - IsoWeek1Monday(year - 1)) % 7) + 1>>
        ELSE IF week >= 52 /\ today >= IsoWeek1Monday(year + 1)
        THEN <<year + 1, 1, day + 1>>
        ELSE <<year, week + 1, day + 1>>

\* date.fromordinal(n)
FromOrdinal(n) ==
    LET y == CHOOSE yy \in (((n - 1) \div 366) + 1)..(((n - 1) \div 365) + 1) :
                 DaysBeforeYear(yy) < n /\ n <= DaysBeforeYear(yy + 1)
        k == n - DaysBeforeYear(y)
        m == CHOOSE mm \in 1..12 :
                 /\ DaysBeforeMonth(y, mm) < k
                 /\ k <= DaysBeforeMonth(y, mm) + DaysInMonth(y, mm)
    IN  y * 10000 + m * 100 + (k - DaysBeforeMonth(y, m))

\* d + timedelta(days=n)
AddDays(d, n) == FromOrdinal(ToOrdinal(d) + n)

\* date(year, 1, 4)
Jan4(year) == year * 10000 + 104

\* services.extract_week_number: (week, year), (None, None) for None.
extract_week_number(d) ==
    IF d = Null THEN <<Null, Null>>
    ELSE <<IsoCalendar(d)[2], IsoCalendar(d)[1]>>

\* get_week_display_date ending the week one day early, on its Saturday.
get_week_display_date_saturday(week_year, week_number) ==
    LET jan4 == Jan4(week_year)
        iso_year_start == AddDays(jan4, -(IsoWeekday(jan4) - 1))
    IN  AddDays(iso_year_start, 7 * (week_number - 1) + 5)

\* services.get_week_display_date: the Sunday of the ISO week.
get_week_display_date(week_year, week_number) ==
    LET jan4 == Jan4(week_year)
        iso_year_start == AddDays(jan4, -(IsoWeekday(jan4) - 1))
    IN  AddDays(iso_year_start, 7 * (week_number - 1) + 6)

(***************************************************************************)
(* Column alias tables.  df.rename(columns=mapping) gives a column the     *)
(* mapped name when the table has its name and leaves it alone otherwise.  *)
(***************************************************************************)
\* COLUMN_MAPPING of services.py, applied by df.rename
COLUMN_MAPPING(raw) ==
    CASE
         raw = "year" -> "year"
      [] raw = "OfcName" -> "ofc_name"
      [] raw = "Ofc_Name" -> "ofc_name"
      [] raw = "XLC Operation" -> "xlc_operation"
      [] raw = "XLC_Operation" -> "xlc_operation"
      [] raw = "dtEndCliWorkWeek" -> "dt_end_cli_work_week"
      [] raw = "Dt_End_CLI_Work_Week" -> "dt_end_cli_work_week"
      [] raw = "WorkDate" -> "work_date"
      [] raw = "Work_Date" -> "work_date"
      [] raw = "Date Range" -> "date_range"
      [] raw = "Date_Range" -> "date_range"
      [] raw = "ApplicantID" -> "applicant_id"
      [] raw = "Applicant_ID" -> "applicant_id"
      [] raw = "LastName" -> "last_name"
      [] raw = "Last_Name" -> "last_name"
      [] raw = "FirstName" -> "first_name"
      [] raw = "First_Name" -> "first_name"
      [] raw = "FullName" -> "full_name"
      [] raw = "Full_Name" -> "full_name"
      [] raw = "EmployeeTypeID" -> "employee_type_id"
      [] raw = "Employee_Type_ID" -> "employee_type_id"
      [] raw = "ShiftNumber" -> "shift_number"
      [] raw = "Shift_Number" -> "shift_number"
      [] raw = "BUDeptName" -> "bu_dept_name"
      [] raw = "BU_Dept_Name" -> "bu_dept_name"
      [] raw = "Allocation_Method" -> "allocation_method"
      [] raw = "dtTimeStart" -> "dt_time_start"
      [] raw = "Dt_Time_Start" -> "dt_time_start"
      [] raw = "dtTimeEnd" -> "dt_time_end"
      [] raw = "Dt_Time_End" -> "dt_time_end"
      [] raw = "RegHours" -> "reg_hours"
      [] raw = "Reg_Hours" -> "reg_hours"
      [] raw = "OTHours" -> "ot_hours"
      [] raw = "OT_Hours" -> "ot_hours"
      [] raw = "DTHours" -> "dt_hours"
      [] raw = "DT_Hours" -> "dt_hours"
      [] raw = "HolWrkHours" -> "hol_wrk_hours"
      [] raw = "Hol_Wrk_Hours" -> "hol_wrk_hours"
      [] raw = "Total Hours" -> "total_hours"
      [] raw = "Total_Hours" -> "total_hours"
      [] raw = "ClockIn_LOcal" -> "clock_in_local"
      [] raw = "Clock_In_Local" -> "clock_in_local"
      [] raw = "ClockIn_Tries" -> "clock_in_tries"
      [] raw = "Clock_In_Tries" -> "clock_in_tries"
      [] raw = "ClockIn_Method" -> "clock_in_method"
      [] raw = "Clock_In_Method" -> "clock_in_method"
      [] raw = "ClockOut_Local" -> "clock_out_local"
      [] raw = "Clock_Out_Local" -> "clock_out_local"
      [] raw = "ClockOut_Tries" -> "clock_out_tries"
      [] raw = "Clock_Out_Tries" -> "clock_out_tries"
      [] raw = "ClockOut_Method" -> "clock_out_method"
      [] raw = "Clock_Out_Method" -> "clock_out_method"
      [] raw = "EntryType" -> "entry_type"
      [] raw = "Entry_Type" -> "entry_type"
      [] OTHER -> raw

\* column_mapping of Command._sync_file, applied by df.rename
column_mapping(raw) ==
    CASE
         raw = "year" -> "year"
      [] raw = "OfcName" -> "ofc_name"
      [] raw = "Ofc_Name" -> "ofc_name"
      [] raw = "XLC Operation" -> "xlc_operation"
      [] raw = "XLC_Operation" -> "xlc_operation"
      [] raw = "dtEndCliWorkWeek" -> "dt_end_cli_work_week"
      [] raw = "Dt_End_CLI_Work_Week" -> "dt_end_cli_work_week"
      [] raw = "WorkDate" -> "work_date"
      [] raw = "Work_Date" -> "work_date"
      [] raw = "Date Range" -> "date_range"
      [] raw = "Date_Range" -> "date_range"
      [] raw = "ApplicantID" -> "applicant_id"
      [] raw = "Applicant_ID" -> "applicant_id"
      [] raw = "LastName" -> "last_name"
      [] raw = "Last_Name" -> "last_name"
      [] raw = "FirstName" -> "first_name"
      [] raw = "First_Name" -> "first_name"
      [] raw = "FullName" -> "full_name"
      [] raw = "Full_Name" -> "full_name"
      [] raw = "EmployeeTypeID" -> "employee_type_id"
      [] raw = "Employee_Type_ID" -> "employee_type_id"
      [] raw = "ShiftNumber" -> "shift_number"
      [] raw = "Shift_Number" -> "shift_number"
      [] raw = "BUDeptName" -> "bu_dept_name"
      [] raw = "BU_Dept_Name" -> "bu_dept_name"
      [] raw = "Allocation_Method" -> "allocation_method"
      [] raw = "dtTimeStart" -> "dt_time_start"
      [] raw = "Dt_Time_Start" -> "dt_time_start"
      [] raw = "dtTimeEnd" -> "dt_time_end"
      [] raw = "Dt_Time_End" -> "dt_time_end"
      [] raw = "RegHours" -> "reg_hours"
      [] raw = "Reg_Hours" -> "reg_hours"
      [] raw = "OTHours" -> "ot_hours"
      [] raw = "OT_Hours" -> "ot_hours"
      [] raw = "DTHours" -> "dt_hours"
      [] raw = "DT_Hours" -> "dt_hours"
      [] raw = "HolWrkHours" -> "hol_wrk_hours"
      [] raw = "Hol_Wrk_Hours" -> "hol_wrk_hours"
      [] raw = "Total Hours" -> "total_hours"
      [] raw = "Total_Hours" -> "total_hours"
      [] raw = "ClockIn_LOcal" -> "clock_in_local"
      [] raw = "Clock_In_Local" -> "clock_in_local"
      [] raw = "ClockIn_Tries" -> "clock_in_tries"
      [] raw = "Clock_In_Tries" -> "clock_in_tries"
      [] raw = "ClockIn_Method" -> "clock_in_method"
      [] raw = "Clock_In_Method" -> "clock_in_method"
      [] raw = "ClockOut_Local" -> "clock_out_local"
      [] raw = "Clock_Out_Local" -> "clock_out_local"
      [] raw = "ClockOut_Tries" -> "clock_out_tries"
      [] raw = "Clock_Out_Tries" -> "clock_out_tries"
      [] raw = "ClockOut_Method" -> "clock_out_method"
      [] raw = "Clock_Out_Method" -> "clock_out_method"
      [] raw = "EntryType" -> "entry_type"
      [] raw = "Entry_Type" -> "entry_type"
      [] OTHER -> raw

(***************************************************************************)
(* Source tables.  A file is unreadable, or holds a header (a set of raw   *)
(* column names) and rows of text cells; a blank cell is read as NaN.      *)
(***************************************************************************)
HdrStd ==
    {"XLC Operation", "dtEndCliWorkWeek", "WorkDate", "EntryType",
     "ClockIn_Tries", "RegHours", "Notes"}

\* Carries its own year column; spells the site column the other way; no
\* numeric column and no work date.
HdrYear == {"year", "XLC_Operation", "dtEndCliWorkWeek", "EntryType"}

\* Both spellings of the week-ending column.
HdrDup == {"XLC Operation", "dtEndCliWorkWeek", "Dt_End_CLI_Work_Week", "EntryType"}

RawCols == HdrStd \cup HdrYear \cup HdrDup

\* A clean row: Saturday week ending of a Saturday-closing site.
RowA ==
    [c \in RawCols |->
        CASE c = "year" -> "2025"
          [] c = "XLC Operation" -> "Martinsburg"
          [] c = "XLC_Operation" -> "Martinsburg"
          [] c = "dtEndCliWorkWeek" -> "2025-01-04"
          [] c = "Dt_End_CLI_Work_Week" -> "2024-12-28"
          [] c = "WorkDate" -> "2025-01-02"
          [] c = "EntryType" -> "Finger"
          [] c = "ClockIn_Tries" -> "2"
          [] c = "RegHours" -> "8"
          [] OTHER -> "checked"]

\* Cell-level defects: unparseable work date, blank tries, text for hours.
RowB ==
    [c \in RawCols |->
        CASE c = "year" -> "2024"
          [] c = "XLC Operation" -> "Winchester"
          [] c = "XLC_Operation" -> "Winchester"
          [] c = "dtEndCliWorkWeek" -> "2025-01-05"
          [] c = "Dt_End_CLI_Work_Week" -> "2024-12-29"
          [] c = "WorkDate" -> "n/a"
          [] c = "EntryType" -> "Provisional Entry"
          [] c = "ClockIn_Tries" -> ""
          [] c = "RegHours" -> "abc"
          [] OTHER -> ""]

\* An unparseable week-ending date.
RowC == [RowA EXCEPT !["dtEndCliWorkWeek"] = "week 1"]

Table(header, rows) ==
    [readable |-> TRUE, header |-> header,
     rows |-> [i \in 1..Len(rows) |-> [c \in header |-> rows[i][c]]]]

FileStd == Table(HdrStd, <<RowA, RowB>>)

FileBadWeek == Table(HdrStd, <<RowA, RowC>>)

FileYear == Table(HdrYear, <<RowA, RowB>>)

FileDup == Table(HdrDup, <<RowA>>)

\* Header line only.
FileEmpty == Table(HdrStd, <<>>)

\* Not a table at all: pd.read_csv / pd.read_excel raises.
FileUnreadable == [readable |-> FALSE, header |-> {}, rows |-> <<>>]

Files == {FileStd, FileBadWeek, FileYear, FileDup, FileEmpty, FileUnreadable}

\* df.empty
DfEmpty(file) == Len(file.rows) = 0 \/ file.header = {}

(***************************************************************************)
(* Cell coercion.                                                          *)
(***************************************************************************)
IsNa(cell) == cell = ""

\* pd.to_datetime(cell, errors='coerce'): the timestamp, NaT when unparseable
ToDatetime(cell) ==
    CASE cell = "2025-01-04" -> 20250104
      [] cell = "2025-01-05" -> 20250105
      [] cell = "2025-01-02" -> 20250102
      [] cell = "2024-12-28" -> 20241228
      [] cell = "2024-12-29" -> 20241229
      [] OTHER -> Null

\* pd.to_numeric(cell, errors='coerce'): the number, NaN when unparseable
ToNumeric(cell) ==
    CASE cell = "0" -> 0
      [] cell = "1" -> 1
      [] cell = "2" -> 2
      [] cell = "3" -> 3
      [] cell = "8" -> 8
      [] OTHER -> Null

\* The integer pd.read_csv infers for a cell of an integer column.
ReadInt(cell) ==
    CASE cell = "2024" -> 2024
      [] cell = "2025" -> 2025
      [] OTHER -> Null

\* Series.fillna(0)
FillNa0(v) == IF v = Null THEN 0 ELSE v

\* What the "Parse dates" .. "Fill NaN for string columns" loops leave in
\* column col for a source cell.
Coerce(col, cell) ==
    IF col \in DateCols THEN ToDatetime(cell)
    ELSE IF col \in DatetimeCols THEN ToDatetime(cell)
    ELSE IF col \in NumericCols THEN FillNa0(ToNumeric(cell))
    ELSE IF col \in StrCols THEN (IF IsNa(cell) THEN "" ELSE cell)
    ELSE ReadInt(cell)

(***************************************************************************)
(* Normalization: rename, keep model columns, coerce, default the year.    *)
(***************************************************************************)
\* Rename with the sync table lacking the spelling "XLC Operation".
RenameSyncOneSpelling(path, raw) ==
    IF path = "upload" THEN COLUMN_MAPPING(raw)
    ELSE IF raw = "XLC Operation" THEN raw
    ELSE column_mapping(raw)

\* df.rename(columns=...) with the alias table of the path taken.
Rename(path, raw) ==
    IF path = "upload" THEN COLUMN_MAPPING(raw) ELSE column_mapping(raw)

\* ValidCols with the filter on the model's fields left out: unmapped source
\* columns stay in the frame.
ValidColsUnfiltered(path, header) == {Rename(path, c) : c \in header}

\* valid_cols: the renamed columns that are fields of the model.
ValidCols(path, header) == {Rename(path, c) : c \in header} \cap ModelFields

\* The source columns that the rename gives the name col.
SourcesOf(path, header, col) == {c \in header : Rename(path, c) = col}

\* Two source columns renamed to one name: the frame has duplicate labels.
Collides(path, header) ==
    \E col \in ValidCols(path, header) :
        Cardinality(SourcesOf(path, header, col)) > 1

\* The columns the coercion loops convert one Series at a time.
CoercedCols == DateCols \cup DatetimeCols \cup NumericCols

\* Duplicate labels on a coerced column: df_clean[col] is then a frame, not a
\* Series, and pd.to_datetime / pd.to_numeric raise on it.
CollidesCoerced(path, header) ==
    \E col \in ValidCols(path, header) \cap CoercedCols :
        Cardinality(SourcesOf(path, header, col)) > 1

\* to_dict('records') keeps one value per label.  With duplicate labels the
\* value of one of the source columns survives: winner names the source
\* column that does; every other label has a single source.
Pick(path, header, winner) ==
    [col \in ValidCols(path, header) |->
        IF Rename(path, winner) = col THEN winner
        ELSE CHOOSE c \in header : Rename(path, c) = col]

\* df_clean.to_dict('records') before week alignment.
Normalize(path, file, year, pick) ==
    LET cols == ValidCols(path, file.header)
        keys == cols \cup {"year"}
    IN  [i \in 1..Len(file.rows) |->
            [k \in keys |->
                IF k \in cols THEN Coerce(k, file.rows[i][pick[k]]) ELSE year]]

\* lambda d: d.isocalendar()[1] if d else None, and [0] for the year
WeekNumberOf(d) == IF d = Null THEN Null ELSE IsoCalendar(d)[2]

\* WeekYearOf with the calendar year in place of the ISO year.
WeekYearOfCalendar(d) == IF d = Null THEN Null ELSE YearOf(d)

WeekYearOf(d) == IF d = Null THEN Null ELSE IsoCalendar(d)[1]

\* "Extract ISO week numbers from dt_end_cli_work_week"
WeekAlign(records) ==
    [i \in 1..Len(records) |->
        IF "dt_end_cli_work_week" \in DOMAIN records[i]
        THEN [k \in DOMAIN records[i] \cup {"week_number", "week_year"} |->
                 IF k = "week_number"
                 THEN WeekNumberOf(records[i]["dt_end_cli_work_week"])
                 ELSE IF k = "week_year"
                 THEN WeekYearOf(records[i]["dt_end_cli_work_week"])
                 ELSE records[i][k]]
        ELSE records[i]]

\* A NaT among the week-ending dates of the frame.
HasNaTWeek(records) ==
    \E i \in 1..Len(records) :
        /\ "dt_end_cli_work_week" \in DOMAIN records[i]
        /\ records[i]["dt_end_cli_work_week"] = Null

(***************************************************************************)
(* The fact table and the audit table.                                     *)
(***************************************************************************)
\* TimeEntry.objects.filter(year=year).delete()
DeleteYear(table, year) == SelectSeq(table, LAMBDA e : e["year"] # year)

\* [TimeEntry(**record) for record in records]
Entries(records) == [i \in 1..Len(records) |-> TimeEntry(records[i])]

\* The non-text columns declared without null=True.
NotNullCols == ((ModelFields \ NullableFields) \ StrCols) \ {"id"}

\* The INSERT is refused: a NULL in a NOT NULL column.
NotNullViolation(entries) ==
    \E i \in 1..Len(entries) : \E f \in NotNullCols : entries[i][f] = Null

\* TimeEntry.objects.bulk_create(entries): the rows get the next primary keys.
BulkCreate(table, entries, firstId) ==
    table \o [i \in 1..Len(entries) |-> [entries[i] EXCEPT !["id"] = firstId + i - 1]]

\* ETLHistory.objects.create(year=year, status='running', message=message)
NewEtl(year, message) ==
    [year |-> year, status |-> "running", records_processed |-> 0,
     message |-> message, duration_seconds |-> "None"]

(***************************************************************************)
(* The two ingestion calls.                                                *)
(***************************************************************************)
NoPath == [parent |-> "", stem |-> ""]

NoCall ==
    [path |-> "none", file |-> FileUnreadable, flag |-> FALSE, year |-> Null,
     csv |-> NoPath, etl |-> 0, records |-> <<>>, before |-> <<>>, raisedAt |-> ""]

NoRet ==
    [value |-> "", success |-> FALSE, message |-> "", records |-> 0, style |-> ""]

\* What process_uploaded_file returns.
Tuple(success, message, records) ==
    [value |-> "tuple", success |-> success, message |-> message,
     records |-> records, style |-> ""]

\* _sync_file returns None after writing a styled line to stdout.
Printed(style, message) ==
    [value |-> "None", success |-> FALSE, message |-> message, records |-> 0,
     style |-> style]

\* _sync_file raises CommandError.
Raised(message) ==
    [value |-> "CommandError", success |-> FALSE, message |-> message,
     records |-> 0, style |-> ""]

\* The csv paths handle() finds and hands to _sync_file: a year folder, and
\* the old file name pattern.
CsvPaths ==
    {[parent |-> "2024", stem |-> "YTD_Data_Weekly"],
     [parent |-> "output", stem |-> "bstt_data_2025"]}

\* re.match(r'^\d{4}$', parent_name) and int(parent_name)
ParentYear(csv) == ReadInt(csv.parent)

\* re.search(r'(\d{4})', csv_path.stem) and int(match.group(1))
StemYear(csv) == IF csv.stem = "bstt_data_2025" THEN 2025 ELSE Null

\* "Detect year from data, path, or filename"
DetectYear(file, csv) ==
    IF "year" \in file.header THEN ReadInt(file.rows[1]["year"])
    ELSE IF ParentYear(csv) # Null THEN ParentYear(csv)
    ELSE IF StemYear(csv) # Null THEN StemYear(csv)
    ELSE 2025

\* No week function has been called.
WeekIdle ==
    /\ date_value = Null
    /\ iso = <<>>
    /\ display = Null
    /\ frame = <<>>

\* No concurrent ingestion is under way.
ConcIdle ==
    /\ store = {}
    /\ writer = 0
    /\ workers = <<>>
    /\ seen = [read |-> FALSE, rows |-> {}]

\* No report is being generated.
ReportIdle ==
    /\ qs = <<>>
    /\ sheet = [name |-> "", columns |-> <<>>, rows |-> {}]

\* No request is being answered and no upload is stored.
WebIdle ==
    /\ request = [year |-> <<>>, week_year |-> <<>>, view |-> "", code |-> 0,
                  queryset |-> <<>>]
    /\ uploads = <<>>
    /\ admin = [pc |-> "idle", current |-> 0, queue |-> <<>>, returned |-> NoRet]

Init ==
    /\ WebIdle
    /\ WeekIdle
    /\ ConcIdle
    /\ ReportIdle
    /\ timeEntries = <<>>
    /\ txEntries = <<>>
    /\ etlHistory = <<>>
    /\ nextId = 1
    /\ pc = "idle"
    /\ call = NoCall
    /\ prev = [path |-> "none", file |-> FileUnreadable, flag |-> FALSE,
               year |-> Null, etl |-> 0]
    /\ exc = ""
    /\ ret = NoRet
    /\ nCalls = 0

\* A statement raises: control goes to the handler of the enclosing try.
\* Leaving "with transaction.atomic()" by an exception rolls the block back.
Throw(handler, step, message) ==
    /\ pc' = handler
    /\ exc' = message
    /\ call' = [call EXCEPT !.raisedAt = step]
    /\ txEntries' = timeEntries

\* The caller hands over a new call; the finished one is remembered.
Begin(path, file, flag, year, csv) ==
    /\ pc = "idle"
    /\ nCalls < MaxRuns
    /\ nCalls' = nCalls + 1
    /\ prev' = [path |-> call.path, file |-> call.file, flag |-> call.flag,
                year |-> call.year, etl |-> call.etl]
    /\ call' = [path |-> path, file |-> file, flag |-> flag, year |-> year,
                csv |-> csv, etl |-> 0, records |-> <<>>,
                before |-> timeEntries,
                raisedAt |-> IF file.readable THEN "" ELSE "read"]

(***************************************************************************)
(* process_uploaded_file(upload)                                           *)
(***************************************************************************)
\* Lines 129-143: read the file; an empty frame returns at once.
UploadOpen(file, year, replace_existing) ==
    /\ Begin("upload", file, replace_existing, year, NoPath)
    /\ UNCHANGED aux
    /\ UNCHANGED <<timeEntries, txEntries, etlHistory, nextId>>
    /\ IF ~file.readable
       THEN /\ pc' = "upload_except"
            /\ exc' = "Error tokenizing data"
            /\ ret' = NoRet
       ELSE IF DfEmpty(file)
       THEN /\ pc' = "idle"
            /\ exc' = ""
            /\ ret' = Tuple(FALSE, "Uploaded file is empty", 0)
       ELSE /\ pc' = "upload_create_etl"
            /\ exc' = ""
            /\ ret' = NoRet

\* Lines 145-150.
UploadCreateEtl ==
    /\ pc = "upload_create_etl"
    /\ UNCHANGED aux
    /\ etlHistory' = Append(etlHistory,
                            NewEtl(call.year, "Processing uploaded file: upload.csv"))
    /\ call' = [call EXCEPT !.etl = Len(etlHistory) + 1]
    /\ pc' = "upload_delete"
    /\ UNCHANGED <<timeEntries, txEntries, nextId, prev, exc, ret, nCalls>>

\* The rows the delete of lines 155-156 leaves in the transaction's view.
UploadAfterDelete ==
    IF call.flag THEN DeleteYear(txEntries, call.year) ELSE txEntries

\* Lines 153-156: enter the transaction, delete the year's rows if asked.
UploadDelete ==
    /\ pc = "upload_delete"
    /\ UNCHANGED aux
    /\ UNCHANGED <<timeEntries, etlHistory, nextId, prev, ret, nCalls>>
    /\ \/ /\ txEntries' = UploadAfterDelete
          /\ pc' = "upload_normalize"
          /\ UNCHANGED <<call, exc>>
       \/ /\ call.flag
          /\ Throw("upload_except", "delete", "database is locked")

\* Lines 158-196.
UploadNormalize ==
    /\ pc = "upload_normalize"
    /\ UNCHANGED aux
    /\ UNCHANGED <<timeEntries, etlHistory, nextId, prev, ret, nCalls>>
    /\ \/ \E winner \in call.file.header :
            /\ ~CollidesCoerced("upload", call.file.header)
            /\ call' = [call EXCEPT !.records =
                            Normalize("upload", call.file, call.year,
                                      Pick("upload", call.file.header, winner))]
            /\ pc' = "upload_week_align"
            /\ UNCHANGED <<txEntries, exc>>
       \/ /\ CollidesCoerced("upload", call.file.header)
          /\ Throw("upload_except", "normalize", "to assemble mappings requires year, month, day")

\* Lines 198-205.
UploadWeekAlign ==
    /\ pc = "upload_week_align"
    /\ UNCHANGED aux
    /\ UNCHANGED <<timeEntries, etlHistory, nextId, prev, ret, nCalls>>
    /\ \/ /\ call' = [call EXCEPT !.records = WeekAlign(call.records)]
          /\ pc' = "upload_bulk_create"
          /\ UNCHANGED <<txEntries, exc>>
       \/ /\ HasNaTWeek(call.records)
          /\ Throw("upload_except", "week_align", "NaTType does not support isocalendar")

\* Lines 207-214 and the end of the with block: insert, then commit.
UploadBulkCreate ==
    /\ pc = "upload_bulk_create"
    /\ UNCHANGED aux
    /\ UNCHANGED <<etlHistory, prev, ret, nCalls>>
    /\ \/ /\ ~NotNullViolation(Entries(call.records))
          /\ timeEntries' = BulkCreate(txEntries, Entries(call.records), nextId)
          /\ txEntries' = timeEntries'
          /\ nextId' = nextId + Len(call.records)
          /\ pc' = "upload_finalize"
          /\ UNCHANGED <<call, exc>>
       \/ /\ NotNullViolation(Entries(call.records))
          /\ Throw("upload_except", "bulk_create", "NOT NULL constraint failed")
          /\ UNCHANGED <<timeEntries, nextId>>

\* Lines 216-224.
UploadFinalize ==
    /\ pc = "upload_finalize"
    /\ UNCHANGED aux
    /\ etlHistory' = [etlHistory EXCEPT ![call.etl] =
            [@ EXCEPT !.status = "success",
                      !.records_processed = Len(call.records),
                      !.duration_seconds = "elapsed",
                      !.message = "Successfully imported "
                                    \o ToString(Len(call.records))
                                    \o " records from upload"]]
    /\ ret' = Tuple(TRUE,
                    "Successfully imported " \o ToString(Len(call.records)) \o " records",
                    Len(call.records))
    /\ pc' = "idle"
    /\ UNCHANGED <<timeEntries, txEntries, nextId, call, prev, exc, nCalls>>

\* UploadExcept with the audit update left out: the handler only returns.
UploadExceptNoAudit ==
    /\ pc = "upload_except"
    /\ UNCHANGED aux
    /\ ret' = Tuple(FALSE, "Error processing file: " \o exc, 0)
    /\ pc' = "idle"
    /\ UNCHANGED <<timeEntries, txEntries, etlHistory, nextId, call, prev, exc, nCalls>>

\* Lines 226-240: the handler; the audit record is updated if it was created.
UploadExcept ==
    /\ pc = "upload_except"
    /\ UNCHANGED aux
    /\ etlHistory' =
          IF call.etl # 0
          THEN [etlHistory EXCEPT ![call.etl] =
                   [@ EXCEPT !.status = "failed",
                             !.message = exc,
                             !.duration_seconds = "elapsed"]]
          ELSE etlHistory
    /\ ret' = Tuple(FALSE, "Error processing file: " \o exc, 0)
    /\ pc' = "idle"
    /\ UNCHANGED <<timeEntries, txEntries, nextId, call, prev, exc, nCalls>>

(***************************************************************************)
(* Command._sync_file(csv_path, clear)                                     *)
(* No transaction is opened: every statement on the fact table is          *)
(* committed when it returns.                                              *)
(***************************************************************************)
\* An exception inside the try block of lines 103-245.
SyncThrow(step, message) ==
    /\ pc' = "sync_except"
    /\ exc' = message
    /\ call' = [call EXCEPT !.raisedAt = step]

\* Lines 66-77: a read error and an empty frame both return.
SyncOpen(file, csv, clear) ==
    /\ Begin("sync", file, clear, Null, csv)
    /\ UNCHANGED aux
    /\ UNCHANGED <<timeEntries, txEntries, etlHistory, nextId>>
    /\ IF ~file.readable
       THEN /\ pc' = "idle"
            /\ exc' = "Error tokenizing data"
            /\ ret' = Printed("ERROR", "Error reading " \o csv.stem \o ".csv")
       ELSE IF DfEmpty(file)
       THEN /\ pc' = "idle"
            /\ exc' = ""
            /\ ret' = Printed("WARNING", "Empty file: " \o csv.stem \o ".csv")
       ELSE /\ pc' = "sync_create_etl"
            /\ exc' = ""
            /\ ret' = NoRet

\* SyncCreateEtl with the delete moved in front of it: the year's rows go
\* before the audit record is created.
SyncCreateEtlAfterDelete ==
    /\ pc = "sync_create_etl"
    /\ UNCHANGED aux
    /\ timeEntries' = DeleteYear(timeEntries, DetectYear(call.file, call.csv))
    /\ txEntries' = timeEntries'
    /\ etlHistory' = Append(etlHistory,
                            NewEtl(DetectYear(call.file, call.csv),
                                   "Processing " \o call.csv.stem \o ".csv"))
    /\ call' = [call EXCEPT !.etl = Len(etlHistory) + 1,
                            !.year = DetectYear(call.file, call.csv)]
    /\ pc' = "sync_delete"
    /\ UNCHANGED <<nextId, prev, exc, ret, nCalls>>

\* Lines 79-101: detect the year, create the audit record.
SyncCreateEtl ==
    /\ pc = "sync_create_etl"
    /\ UNCHANGED aux
    /\ etlHistory' = Append(etlHistory,
                            NewEtl(DetectYear(call.file, call.csv),
                                   "Processing " \o call.csv.stem \o ".csv"))
    /\ call' = [call EXCEPT !.etl = Len(etlHistory) + 1,
                            !.year = DetectYear(call.file, call.csv)]
    /\ pc' = "sync_delete"
    /\ UNCHANGED <<timeEntries, txEntries, nextId, prev, exc, ret, nCalls>>

\* The rows the delete of lines 105-110 leaves: both branches delete the year.
SyncAfterDelete ==
    IF call.flag
    THEN DeleteYear(timeEntries, call.year)
    ELSE DeleteYear(timeEntries, call.year)

\* Lines 103-110.
SyncDelete ==
    /\ pc = "sync_delete"
    /\ UNCHANGED aux
    /\ UNCHANGED <<etlHistory, nextId, prev, ret, nCalls>>
    /\ \/ /\ timeEntries' = SyncAfterDelete
          /\ txEntries' = timeEntries'
          /\ pc' = "sync_normalize"
          /\ UNCHANGED <<call, exc>>
       \/ /\ SyncThrow("delete", "database is locked")
          /\ UNCHANGED <<timeEntries, txEntries>>

\* Lines 112-217.
SyncNormalize ==
    /\ pc = "sync_normalize"
    /\ UNCHANGED aux
    /\ UNCHANGED <<timeEntries, txEntries, etlHistory, nextId, prev, ret, nCalls>>
    /\ \/ \E winner \in call.file.header :
            /\ ~CollidesCoerced("sync", call.file.header)
            /\ call' = [call EXCEPT !.records =
                            Normalize("sync", call.file, call.year,
                                      Pick("sync", call.file.header, winner))]
            /\ pc' = "sync_week_align"
            /\ UNCHANGED exc
       \/ /\ CollidesCoerced("sync", call.file.header)
          /\ SyncThrow("normalize", "to assemble mappings requires year, month, day")

\* Lines 219-227.
SyncWeekAlign ==
    /\ pc = "sync_week_align"
    /\ UNCHANGED aux
    /\ UNCHANGED <<timeEntries, txEntries, etlHistory, nextId, prev, ret, nCalls>>
    /\ \/ /\ call' = [call EXCEPT !.records = WeekAlign(call.records)]
          /\ pc' = "sync_bulk_create"
          /\ UNCHANGED exc
       \/ /\ HasNaTWeek(call.records)
          /\ SyncThrow("week_align", "NaTType does not support isocalendar")

\* Lines 229-234: bulk_create inserts all rows or, when it raises, none.
SyncBulkCreate ==
    /\ pc = "sync_bulk_create"
    /\ UNCHANGED aux
    /\ UNCHANGED <<etlHistory, prev, ret, nCalls>>
    /\ \/ /\ ~NotNullViolation(Entries(call.records))
          /\ timeEntries' = BulkCreate(timeEntries, Entries(call.records), nextId)
          /\ txEntries' = timeEntries'
          /\ nextId' = nextId + Len(call.records)
          /\ pc' = "sync_finalize"
          /\ UNCHANGED <<call, exc>>
       \/ /\ NotNullViolation(Entries(call.records))
          /\ SyncThrow("bulk_create", "NOT NULL constraint failed")
          /\ UNCHANGED <<timeEntries, txEntries, nextId>>

\* Lines 236-245.
SyncFinalize ==
    /\ pc = "sync_finalize"
    /\ UNCHANGED aux
    /\ etlHistory' = [etlHistory EXCEPT ![call.etl] =
            [@ EXCEPT !.status = "success",
                      !.records_processed = Len(call.records),
                      !.duration_seconds = "elapsed",
                      !.message = "Successfully imported "
                                    \o ToString(Len(call.records)) \o " records"]]
    /\ ret' = Printed("SUCCESS",
                      "Imported " \o ToString(Len(call.records))
                          \o " records for year " \o ToString(call.year))
    /\ pc' = "idle"
    /\ UNCHANGED <<timeEntries, txEntries, nextId, call, prev, exc, nCalls>>

\* Lines 247-251: the handler marks the audit record and raises CommandError.
SyncExcept ==
    /\ pc = "sync_except"
    /\ UNCHANGED aux
    /\ etlHistory' = [etlHistory EXCEPT ![call.etl] =
            [@ EXCEPT !.status = "failed", !.message = exc]]
    /\ ret' = Raised("Error importing data: " \o exc)
    /\ pc' = "idle"
    /\ UNCHANGED <<timeEntries, txEntries, nextId, call, prev, exc, nCalls>>

Next ==
    \/ \E file \in Files, year \in Years, replace_existing \in BOOLEAN :
          UploadOpen(file, year, replace_existing)
    \/ UploadCreateEtl
    \/ UploadDelete
    \/ UploadNormalize
    \/ UploadWeekAlign
    \/ UploadBulkCreate
    \/ UploadFinalize
    \/ UploadExcept
    \/ \E file \in Files, csv \in CsvPaths, clear \in BOOLEAN :
          SyncOpen(file, csv, clear)
    \/ SyncCreateEtl
    \/ SyncDelete
    \/ SyncNormalize
    \/ SyncWeekAlign
    \/ SyncBulkCreate
    \/ SyncFinalize
    \/ SyncExcept

Spec == Init /\ [][Next]_vars

(***************************************************************************)
(* Vocabulary of the properties.                                           *)
(***************************************************************************)
\* An ingestion call has returned or raised.
Returned == pc = "idle" /\ call.path # "none"

\* The call reported success to its caller.
Succeeded ==
    /\ Returned
    /\ \/ call.path = "upload" /\ ret.success
       \/ call.path = "sync" /\ ret.style = "SUCCESS"

\* The facts of one year, in primary-key order.
YearFacts(table, year) == SelectSeq(table, LAMBDA e : e["year"] = year)

\* A table's rows without their primary keys.
Content(table) == [i \in 1..Len(table) |-> [table[i] EXCEPT !["id"] = Null]]

Ids(table) == {table[i]["id"] : i \in 1..Len(table)}

\* The facts the current call has inserted.
Inserted == SelectSeq(timeEntries, LAMBDA e : e["id"] \notin Ids(call.before))

\* The call has an audit record, and it has this status.
AuditIs(status) ==
    /\ call.etl \in 1..Len(etlHistory)
    /\ etlHistory[call.etl].status = status

\* C1: if a step of an ingestion for year Y raises (delete, normalization,
\* week alignment, bulk insert), then when the ingestion returns the facts
\* stored for year Y are exactly those stored before the attempt, in the
\* upload path and in the sync path.
C1_RollbackOnException ==
    (Returned /\ call.raisedAt \in {"delete", "normalize", "week_align", "bulk_create"})
        => YearFacts(timeEntries, call.year) = YearFacts(call.before, call.year)

\* C2: after a successful ingestion for year Y, no fact that was stored for
\* year Y before the ingestion is still stored, whatever the caller's flag.
C2_YearAlwaysReplaced ==
    Succeeded =>
        \A i \in 1..Len(call.before) :
            call.before[i]["year"] = call.year
                => call.before[i]["id"] \notin Ids(timeEntries)

\* The current call repeats the previous one, and both succeeded.
Reingested ==
    /\ Succeeded
    /\ prev.path = call.path
    /\ prev.file = call.file
    /\ prev.flag = call.flag
    /\ prev.year = call.year
    /\ prev.etl \in 1..Len(etlHistory)
    /\ etlHistory[prev.etl].status = "success"

\* C3: ingesting the same table for the same year twice in succession leaves
\* the year's facts as the first ingestion left them, row for row, and their
\* number is the number of rows of the table.
C3_ReingestIdempotent ==
    Reingested =>
        /\ Content(YearFacts(timeEntries, call.year))
              = Content(YearFacts(call.before, call.year))
        /\ Len(YearFacts(timeEntries, call.year)) = Len(call.file.rows)

\* C4: a step that changes the fact table (committed or inside the
\* transaction) starts in a state where the attempt's audit record exists,
\* is 'running' and carries the target year.
C4_AuditBeforeMutation ==
    [][(timeEntries' # timeEntries \/ txEntries' # txEntries)
          => (AuditIs("running") /\ etlHistory[call.etl].year = call.year)]_vars

\* A delete has changed the table while the audit record is 'running'.
C4_Witness ==
    /\ pc \in {"upload_normalize", "sync_normalize"}
    /\ txEntries # call.before
    /\ AuditIs("running")

C6_EmptyFile ==
    (Returned /\ call.file.readable /\ DfEmpty(call.file)) =>
        /\ ~Succeeded
        /\ ret.records = 0
        /\ ret.message \in {"Uploaded file is empty",
                            "Empty file: " \o call.csv.stem \o ".csv"}
        /\ timeEntries = call.before
        /\ AuditIs("failed")

\* C7: a file that cannot be read or parsed aborts the ingestion before any
\* change to the fact table, and an audit record of the attempt exists with
\* status 'failed'.
C7_UnreadableFile ==
    (Returned /\ ~call.file.readable) =>
        /\ ~Succeeded
        /\ timeEntries = call.before
        /\ AuditIs("failed")

\* The source cell of row i that feeds date column col, when one does.
DateCell(col, i) ==
    call.file.rows[i][CHOOSE c \in call.file.header : Rename(call.path, c) = col]

\* Row i has an unparseable cell in a date column.
BadDateRow(i) ==
    \E col \in DateCols \cap ValidCols(call.path, call.file.header) :
        ToDatetime(DateCell(col, i)) = Null

\* C8: a row with an unparseable week-ending date or work date does not
\* abort the ingestion and is not dropped: every row of the file is stored,
\* and a date field is null exactly where its source cell is unparseable.
C8_BadDateKeepsRow ==
    (/\ Returned
     /\ call.file.readable
     /\ ~Collides(call.path, call.file.header)
     /\ call.raisedAt # "delete"
     /\ \E i \in 1..Len(call.file.rows) : BadDateRow(i))
        => /\ Succeeded
           /\ Len(Inserted) = Len(call.file.rows)
           /\ \A i \in 1..Len(Inserted) :
                \A col \in DateCols \cap ValidCols(call.path, call.file.header) :
                    Inserted[i][col] = ToDatetime(DateCell(col, i))

\* The source gives row i no valid number for numeric field f: the column is
\* absent, or the cell is blank or unparseable.
NoValidNumber(f, i) ==
    \/ f \notin ValidCols(call.path, call.file.header)
    \/ ToNumeric(call.file.rows[i][
            CHOOSE c \in call.file.header : Rename(call.path, c) = f]) = Null

\* C9: a stored fact's numeric field is never null, and is 0 whenever the
\* source value is invalid or missing (bad cell or absent column).
C9_NumericDefaultZero ==
    (Succeeded /\ ~Collides(call.path, call.file.header)) =>
        \A i \in 1..Len(Inserted) :
            \A f \in NumericCols :
                /\ Inserted[i][f] # Null
                /\ NoValidNumber(f, i) => Inserted[i][f] = 0

\* Normalization has run for the current call.
Normalized == pc \in {"upload_week_align", "sync_week_align"}

\* One canonical row per input row, in input order; no column outside the
\* model; every aliased source column under its canonical name.
CanonicalRows ==
    /\ Len(call.records) = Len(call.file.rows)
    /\ \A i \in 1..Len(call.records) :
          /\ DOMAIN call.records[i] \subseteq ModelFields
          /\ \A c \in call.file.header :
                IF Rename(call.path, c) \in ModelFields
                THEN /\ Rename(call.path, c) \in DOMAIN call.records[i]
                     /\ call.records[i][Rename(call.path, c)]
                            = Coerce(Rename(call.path, c), call.file.rows[i][c])
                ELSE c \notin DOMAIN call.records[i]

\* C10 as stated: normalization never raises and yields one canonical row
\* per input row, in order, with unmapped columns dropped and every aliased
\* source column present under its canonical name.
C10_NormalizeAllColumns ==
    /\ call.raisedAt # "normalize"
    /\ Normalized => CanonicalRows

\* C10 amended: the same, for a table no two columns of which resolve to the
\* same canonical field.
C10_NormalizeDistinctColumns ==
    ~Collides(call.path, call.file.header) =>
        /\ call.raisedAt # "normalize"
        /\ Normalized => CanonicalRows

\* A two-row table with an unmapped Notes column has been normalized.
C10_Witness ==
    /\ Normalized
    /\ call.file = FileStd
    /\ Len(call.records) = 2
    /\ "Notes" \notin DOMAIN call.records[1]
    /\ call.records[2]["xlc_operation"] = "Winchester"

(***************************************************************************)
(* The week functions on their own: every date of a span of years is       *)
(* handed to extract_week_number, its result to get_week_display_date, and *)
(* a frame holding the date and the day after it to the week-column step.  *)
(***************************************************************************)
\* First year of the span and its length in years.
FirstYear == 2000

NumYears == 28

CalendarDates ==
    {y * 10000 + m * 100 + dd :
        y \in FirstYear..(FirstYear + NumYears - 1), m \in 1..12, dd \in 1..31}

Dates == {d \in CalendarDates : DayOf(d) <= DaysInMonth(YearOf(d), MonthOf(d))}

WeekInit ==
    /\ WebIdle
    /\ ConcIdle
    /\ ReportIdle
    /\ date_value \in Dates \cup {Null}
    /\ iso = <<>>
    /\ display = Null
    /\ frame = <<>>
    /\ timeEntries = <<>>
    /\ txEntries = <<>>
    /\ etlHistory = <<>>
    /\ nextId = 1
    /\ pc = "idle"
    /\ call = NoCall
    /\ prev = [path |-> "none", file |-> FileUnreadable, flag |-> FALSE,
               year |-> Null, etl |-> 0]
    /\ exc = ""
    /\ ret = NoRet
    /\ nCalls = 0

\* week_number, week_year = extract_week_number(date_value)
ExtractWeekNumber ==
    /\ iso = <<>>
    /\ iso' = extract_week_number(date_value)
    /\ UNCHANGED <<ingest, concVars, reportVars, webVars, date_value, display, frame>>

\* get_week_display_date(week_year, week_number) on the pair just extracted
GetWeekDisplayDate ==
    /\ iso # <<>>
    /\ iso[1] # Null
    /\ display = Null
    /\ display' = get_week_display_date(iso[2], iso[1])
    /\ UNCHANGED <<ingest, concVars, reportVars, webVars, date_value, iso, frame>>

\* A Saturday-closing site's row and a Sunday-closing site's row of one frame.
TwoSites(d) ==
    <<[xlc_operation |-> "Martinsburg", dt_end_cli_work_week |-> d],
      [xlc_operation |-> "Winchester", dt_end_cli_work_week |-> AddDays(d, 1)]>>

\* The week columns of sync_csv.py lines 219-227 on the two-site frame.
AlignSites ==
    /\ frame = <<>>
    /\ date_value # Null
    /\ frame' = WeekAlign(TwoSites(date_value))
    /\ UNCHANGED <<ingest, concVars, reportVars, webVars, date_value, iso, display>>

WeekNext ==
    \/ ExtractWeekNumber
    \/ GetWeekDisplayDate
    \/ AlignSites

WeekSpec == WeekInit /\ [][WeekNext]_vars

\* Ordinal of the Thursday of the Monday-to-Sunday week that holds d.
ThursdayOf(d) == ToOrdinal(d) - IsoWeekday(d) + 4

\* d lies in ISO week w of ISO year y: the Thursday of d's week is the w-th
\* Thursday of calendar year y.
InIsoWeek(d, w, y) ==
    /\ DaysBeforeYear(y) < ThursdayOf(d)
    /\ ThursdayOf(d) <= DaysBeforeYear(y + 1)
    /\ w = ((ThursdayOf(d) - DaysBeforeYear(y) - 1) \div 7) + 1

\* C11: extract_week_number(d) = (w, y) puts d in ISO-8601 week w of ISO
\* year y, with 1 <= w <= 53.
C11_ExtractIsIsoWeek ==
    (iso # <<>> /\ date_value # Null) =>
        /\ iso = extract_week_number(date_value)
        /\ InIsoWeek(date_value, iso[1], iso[2])
        /\ iso[1] >= 1
        /\ iso[1] <= 53

\* Sunday 3 January 2021 came back as week 53 of ISO year 2020.
C11_Witness ==
    /\ date_value = 20210103
    /\ iso = <<53, 2020>>

\* C12: get_week_display_date(y, w) of the pair extracted from d is a Sunday,
\* is d plus 0 to 6 days, extracts to the same pair, and is the Monday of ISO
\* week 1 of y plus (w-1) weeks plus 6 days.
C12_DisplayDateIsWeeksSunday ==
    display # Null =>
        /\ IsoWeekday(display) = 7
        /\ ToOrdinal(display) - ToOrdinal(date_value) \in 0..6
        /\ extract_week_number(display) = iso
        /\ ToOrdinal(display) = IsoWeek1Monday(iso[2]) + 7 * (iso[1] - 1) + 6

\* Monday 28 December 2020 is shown as Sunday 3 January 2021.
C12_Witness ==
    /\ date_value = 20201228
    /\ iso = <<53, 2020>>
    /\ display = 20210103

\* C13: the week-ending Saturday of one site and the following Sunday of
\* another get the same (week_number, week_year), across year ends too.
C13_SaturdaySundaySameWeek ==
    (frame # <<>> /\ IsoWeekday(date_value) = 6) =>
        /\ frame[1]["week_number"] # Null
        /\ frame[1]["week_year"] # Null
        /\ frame[1]["week_number"] = frame[2]["week_number"]
        /\ frame[1]["week_year"] = frame[2]["week_year"]

\* Saturday 31 December 2022 and Sunday 1 January 2023: week 52 of 2022.
C13_Witness ==
    /\ date_value = 20221231
    /\ frame # <<>>
    /\ frame[2]["dt_end_cli_work_week"] = 20230101
    /\ frame[1]["week_number"] = 52
    /\ frame[2]["week_year"] = 2022

(***************************************************************************)
(* Migration 0004: populate_week_numbers fills week_number and week_year   *)
(* of the rows stored before the two columns existed.  Rows stored since   *)
(* by the ingestion code that writes the columns have them already.  The   *)
(* ingestion calls are served when the migration is over.                  *)
(***************************************************************************)
\* Rows fetched per pass of the loop (5000 in the migration).
batch_size == 2

\* A row stored before migration 0003 added the week columns: both are NULL.
Legacy(id, site, year, week_ending) ==
    [TimeEntry([xlc_operation |-> site, year |-> year,
                dt_end_cli_work_week |-> week_ending,
                entry_type |-> "Finger"]) EXCEPT !["id"] = id]

LegacyRows ==
    <<Legacy(1, "Winchester", 2023, 20230101),
      Legacy(2, "Martinsburg", 2024, 20241228),
      Legacy(3, "Winchester", 2024, 20241229)>>

\* Lines 35-39 with the calendar year in place of the ISO year.
PopulateCalendarYear(entry) ==
    IF entry["dt_end_cli_work_week"] # Null
    THEN [entry EXCEPT !["week_number"] = IsoCalendar(entry["dt_end_cli_work_week"])[2],
                       !["week_year"] = YearOf(entry["dt_end_cli_work_week"])]
    ELSE entry

\* Lines 35-39 with the assignment of week_number left out.
PopulateYearOnly(entry) ==
    IF entry["dt_end_cli_work_week"] # Null
    THEN [entry EXCEPT !["week_year"] = IsoCalendar(entry["dt_end_cli_work_week"])[1]]
    ELSE entry

\* Lines 35-39: the loop body for one fetched entry.
Populate(entry) ==
    IF entry["dt_end_cli_work_week"] # Null
    THEN [entry EXCEPT !["week_number"] = IsoCalendar(entry["dt_end_cli_work_week"])[2],
                       !["week_year"] = IsoCalendar(entry["dt_end_cli_work_week"])[1]]
    ELSE entry

\* TimeEntry.objects.filter(week_number__isnull=True), as positions in the table
WeekNumberIsNull(table) == {i \in 1..Len(table) : table[i]["week_number"] = Null}

\* The slices [:batch_size] of that queryset under Meta.ordering: latest
\* week-ending date first, rows of equal date in either order.
Batches(table) ==
    {b \in SUBSET WeekNumberIsNull(table) :
        /\ Cardinality(b) <= batch_size
        /\ \/ Cardinality(b) = batch_size
           \/ b = WeekNumberIsNull(table)
        /\ \A i \in b : \A j \in WeekNumberIsNull(table) \ b :
              table[i]["dt_end_cli_work_week"] >= table[j]["dt_end_cli_work_week"]}

\* Lines 25-43: one pass of the loop, fetch, fill and bulk_update.
PopulateBatch ==
    /\ pc = "migrate"
    /\ WeekNumberIsNull(timeEntries) # {}
    /\ \E b \in Batches(timeEntries) :
          timeEntries' = [i \in 1..Len(timeEntries) |->
                             IF i \in b THEN Populate(timeEntries[i])
                             ELSE timeEntries[i]]
    /\ txEntries' = timeEntries'
    /\ UNCHANGED <<etlHistory, nextId, pc, call, prev, exc, ret, nCalls, aux>>

\* Lines 32-33: an empty fetch ends the loop.
PopulateDone ==
    /\ pc = "migrate"
    /\ WeekNumberIsNull(timeEntries) = {}
    /\ pc' = "idle"
    /\ UNCHANGED <<timeEntries, txEntries, etlHistory, nextId, call, prev, exc,
                   ret, nCalls, aux>>

\* The table holds some of the old rows when the migration starts, some of
\* them with their week columns as the ingestion code writes them.
MigrateInit ==
    /\ WebIdle
    /\ WeekIdle
    /\ ConcIdle
    /\ ReportIdle
    /\ \E n \in 0..Len(LegacyRows) : \E filled \in SUBSET (1..n) :
          /\ timeEntries = [i \in 1..n |-> IF i \in filled
                                            THEN Populate(LegacyRows[i])
                                            ELSE LegacyRows[i]]
          /\ txEntries = timeEntries
          /\ nextId = n + 1
    /\ etlHistory = <<>>
    /\ pc = "migrate"
    /\ call = NoCall
    /\ prev = [path |-> "none", file |-> FileUnreadable, flag |-> FALSE,
               year |-> Null, etl |-> 0]
    /\ exc = ""
    /\ ret = NoRet
    /\ nCalls = 0

\* The source tables ingested after the migration.
MigrateFiles == {FileStd, FileYear}

MigrateNext ==
    \/ PopulateBatch
    \/ PopulateDone
    \/ \E file \in MigrateFiles, year \in Years, replace_existing \in BOOLEAN :
          UploadOpen(file, year, replace_existing)
    \/ UploadCreateEtl
    \/ UploadDelete
    \/ UploadNormalize
    \/ UploadWeekAlign
    \/ UploadBulkCreate
    \/ UploadFinalize
    \/ UploadExcept
    \/ \E file \in MigrateFiles, csv \in CsvPaths, clear \in BOOLEAN :
          SyncOpen(file, csv, clear)
    \/ SyncCreateEtl
    \/ SyncDelete
    \/ SyncNormalize
    \/ SyncWeekAlign
    \/ SyncBulkCreate
    \/ SyncFinalize
    \/ SyncExcept

MigrateSpec == MigrateInit /\ [][MigrateNext]_vars

\* The migration is one sequential run: its loop goes on while a pass is
\* possible and leaves when the fetch comes back empty.
MigrateFair == MigrateSpec /\ WF_vars(PopulateBatch) /\ WF_vars(PopulateDone)

\* The week fields of a stored fact agree with its week-ending date.
WeekConsistent(e) ==
    IF e["dt_end_cli_work_week"] = Null
    THEN e["week_number"] = Null /\ e["week_year"] = Null
    ELSE /\ e["week_number"] # Null
         /\ e["week_year"] # Null
         /\ InIsoWeek(e["dt_end_cli_work_week"], e["week_number"], e["week_year"])

\* C14: once the backfill has run, and after every ingestion step that
\* follows, each stored fact has both week fields null when its week-ending
\* date is null and otherwise both equal to the date's ISO week and ISO year.
C14_WeekFieldsConsistent ==
    pc # "migrate" => \A i \in 1..Len(timeEntries) : WeekConsistent(timeEntries[i])

\* A backfilled row whose ISO year is not its calendar year beside an
\* ingested row.
C14_Witness ==
    /\ pc = "idle"
    /\ \E i \in 1..Len(timeEntries) :
          /\ timeEntries[i]["dt_end_cli_work_week"] = 20230101
          /\ timeEntries[i]["week_year"] = 2022
          /\ timeEntries[i]["week_number"] = 52
    /\ \E j \in 1..Len(timeEntries) :
          /\ timeEntries[j]["dt_end_cli_work_week"] = 20250104
          /\ timeEntries[j]["week_number"] = 1

(***************************************************************************)
(* Two ingestions of the same year side by side, and a reader.             *)
(*                                                                         *)
(* The store is SQLite (settings.DATABASES): one connection at a time      *)
(* holds the write lock.  process_uploaded_file takes it at the first      *)
(* write inside transaction.atomic() and keeps it until the block is left; *)
(* _sync_file opens no transaction, so each of its statements takes and    *)
(* releases the lock by itself.  A connection that finds the lock taken    *)
(* waits, and gets "database is locked" when the wait times out.  Readers  *)
(* see committed rows only.  Uploads replace the year                      *)
(* (replace_existing=True); the audit table is left out.                   *)
(***************************************************************************)
\* Rows of each source table.
RowsPerTable == 2

Workers == {1, 2}

\* Row k of the source table of ingestion w; ingestion 0 stands for the
\* facts stored before either began.
RowsOf(w) == {<<w, k>> : k \in 1..RowsPerTable}

Paths == {"upload", "sync", "none"}

ConcInit ==
    /\ WebIdle
    /\ WeekIdle
    /\ ReportIdle
    /\ timeEntries = <<>>
    /\ txEntries = <<>>
    /\ etlHistory = <<>>
    /\ nextId = 1
    /\ pc = "idle"
    /\ call = NoCall
    /\ prev = [path |-> "none", file |-> FileUnreadable, flag |-> FALSE,
               year |-> Null, etl |-> 0]
    /\ exc = ""
    /\ ret = NoRet
    /\ nCalls = 0
    /\ store = RowsOf(0)
    /\ writer = 0
    /\ seen = [read |-> FALSE, rows |-> {}]
    /\ \E p1 \in Paths, p2 \in Paths :
          workers = [w \in Workers |->
                        [path |-> IF w = 1 THEN p1 ELSE p2,
                         pc |-> IF (IF w = 1 THEN p1 ELSE p2) = "none"
                                THEN "absent" ELSE "delete",
                         view |-> {}]]

\* services.py lines 153-156: inside transaction.atomic(), the delete is the
\* first write and takes the lock; its effect stays in the connection.
AtomicDelete(w) ==
    /\ workers[w].path = "upload"
    /\ workers[w].pc = "delete"
    /\ writer = 0
    /\ writer' = w
    /\ workers' = [workers EXCEPT ![w].pc = "insert", ![w].view = {}]
    /\ UNCHANGED <<ingest, weekVars, reportVars, webVars, store, seen>>

\* services.py lines 207-214 and the end of the with block: insert, commit,
\* release the lock.
AtomicBulkCreate(w) ==
    /\ workers[w].path = "upload"
    /\ workers[w].pc = "insert"
    /\ writer = w
    /\ store' = workers[w].view \cup RowsOf(w)
    /\ writer' = 0
    /\ workers' = [workers EXCEPT ![w].pc = "done"]
    /\ UNCHANGED <<ingest, weekVars, reportVars, webVars, seen>>

\* sync_csv.py lines 105-110: the delete commits when it returns.
AutocommitDelete(w) ==
    /\ workers[w].path = "sync"
    /\ workers[w].pc = "delete"
    /\ writer = 0
    /\ store' = {}
    /\ workers' = [workers EXCEPT ![w].pc = "insert"]
    /\ UNCHANGED <<ingest, weekVars, reportVars, webVars, writer, seen>>

\* sync_csv.py lines 229-234: bulk_create commits when it returns.
AutocommitBulkCreate(w) ==
    /\ workers[w].path = "sync"
    /\ workers[w].pc = "insert"
    /\ writer = 0
    /\ store' = store \cup RowsOf(w)
    /\ workers' = [workers EXCEPT ![w].pc = "done"]
    /\ UNCHANGED <<ingest, weekVars, reportVars, webVars, writer, seen>>

\* The wait for the lock times out: OperationalError, the handler of the
\* path ends the ingestion as failed.
DatabaseIsLocked(w) ==
    /\ workers[w].pc \in {"delete", "insert"}
    /\ writer \notin {0, w}
    /\ workers' = [workers EXCEPT ![w].pc = "failed"]
    /\ UNCHANGED <<ingest, weekVars, reportVars, webVars, store, writer, seen>>

\* A KPI view or report generator queries the year's facts.
ReaderQuery ==
    /\ seen' = [read |-> TRUE, rows |-> store]
    /\ UNCHANGED <<ingest, weekVars, reportVars, webVars, store, writer, workers>>

ConcNext ==
    \/ \E w \in Workers : AtomicDelete(w)
    \/ \E w \in Workers : AtomicBulkCreate(w)
    \/ \E w \in Workers : AutocommitDelete(w)
    \/ \E w \in Workers : AutocommitBulkCreate(w)
    \/ \E w \in Workers : DatabaseIsLocked(w)
    \/ ReaderQuery

ConcSpec == ConcInit /\ [][ConcNext]_vars

\* The ingestions that are part of the run.
Running == {w \in Workers : workers[w].path # "none"}

Finished(w) == workers[w].pc \in {"done", "failed"}

\* C15: two ingestions of one year are never interleaved: after both
\* finish, the year holds exactly the rows of one of the two source tables.
C15_IngestionsSerialized ==
    (/\ workers # <<>>
     /\ Running = Workers
     /\ \A w \in Workers : Finished(w)
     /\ \E w \in Workers : workers[w].pc = "done")
        => \E w \in Workers : store = RowsOf(w)

\* C16: while one ingestion of the year runs, a reader sees the complete set
\* from before it or the complete new set, never an empty or partial year.
C16_ReaderSeesWholeYear ==
    (/\ workers # <<>>
     /\ seen.read
     /\ Cardinality(Running) = 1)
        => \E w \in Running : seen.rows \in {RowsOf(0), RowsOf(w)}

(***************************************************************************)
(* BSTTReportGenerator over a filtered fact collection.                    *)
(*                                                                         *)
(* The collection is given by the number of stored rows of each of a few   *)
(* kinds of fact; Count('id') of a group is the number of its rows.  A     *)
(* sheet is its week columns (where it has any) and its rows: a set where   *)
(* the order of the rows is left out, a sequence for the pivot sheet.  The  *)
(* fixed headers and the cell styles are left out.                         *)
(***************************************************************************)
\* Rows of one kind in the collection.
MaxPerKind == 2

\* A large file of finger entries.
Bulk == 2500

ENROLLMENT_THRESHOLD == 2

Fact(site, name, id, dept, week_ending, type) ==
    [xlc_operation |-> site, full_name |-> name, applicant_id |-> id,
     bu_dept_name |-> dept, dt_end_cli_work_week |-> week_ending,
     entry_type |-> type]

\* Saturday 28 December 2024 closes a Martinsburg week, Sunday 28 December
\* 2025 a Winchester week.  The last four kinds are the rare ones: a second
\* applicant called Ann, two sites whose names differ in one character, and
\* an entry without a classification (an empty EntryType cell is stored as
\* the empty string).
FactKinds ==
    <<Fact("Martinsburg", "Ann", "A1", "D1", 20241228, "Provisional Entry"),
      Fact("Winchester", "Ann", "A1", "D2", 20251228, "Provisional Entry"),
      Fact("Martinsburg", "Ann", "A1", "D1", 20250104, "Provisional Entry"),
      Fact("Winchester", "Bob", "B2", "D2", 20250105, "Provisional Entry"),
      Fact("Winchester", "Bob", "B2", "D2", 20250105, "Finger"),
      Fact("Winchester", "Bob", "B2", "D2", 20250105, "Write-In"),
      Fact("Winchester", "Bob", "B2", "D2", 20250105, "Missing c/o"),
      Fact("Martinsburg", "Ann", "A9", "D1", 20250104, "Provisional Entry"),
      Fact("Winchester/VA", "Cy", "C3", "D3", 20250105, "Write-In"),
      Fact("Winchester-VA", "Dee", "D4", "D3", 20250105, "Missing c/o"),
      Fact("Winchester", "Eve", "E5", "D2", 20250105, "")>>

Kinds == 1..Len(FactKinds)

BulkKind == 5

\* The kinds that occur at most once, and only in small collections.
RareKinds == 8..Len(FactKinds)

RECURSIVE SumOver(_, _)
SumOver(S, f) ==
    IF S = {} THEN 0
    ELSE LET x == CHOOSE y \in S : TRUE
         IN  f[x] + SumOver(S \ {x}, f)

\* qs.filter(...).count() for the kinds in S
CountOf(q, S) == SumOver(S, q)

\* The kinds with a row in the collection.
Present(q) == {k \in Kinds : q[k] > 0}

\* qs.filter(entry_type=type)
OfType(q, type) == {k \in Present(q) : FactKinds[k].entry_type = type}

\* A set of integers in ascending order.
RECURSIVE Sorted(_)
Sorted(S) ==
    IF S = {} THEN <<>>
    ELSE LET m == CHOOSE x \in S : \A y \in S : x <= y
         IN  <<m>> \o Sorted(S \ {m})

\* num/den to the nearest integer, upwards whenever it is not whole.
RoundUp(num, den) ==
    IF num % den = 0 THEN num \div den ELSE (num \div den) + 1

\* num/den to the nearest integer, a tie to the even neighbour (numpy's
\* rint, which Series.round applies after scaling).
RoundHalfEven(num, den) ==
    LET q == num \div den
        r == num % den
    IN  IF 2 * r < den THEN q
        ELSE IF 2 * r > den THEN q + 1
        ELSE IF q % 2 = 0 THEN q ELSE q + 1

\* Percentage rounding upwards in place of to the nearest tenth.
PercentageRoundedUp(count, total) == RoundUp(count * 1000, total)

\* (count / total * 100).round(1), in tenths of a percent
Percentage(count, total) == RoundHalfEven(count * 1000, total)

\* _write_by_entry_type, lines 596-608: one row per entry type.
ByEntryType(q) ==
    LET types == {FactKinds[k].entry_type : k \in Present(q)}
        total == CountOf(q, Present(q))
    IN  {[entry_type |-> ty,
          count |-> CountOf(q, OfType(q, ty)),
          percentage |-> Percentage(CountOf(q, OfType(q, ty)), total)] :
            ty \in types}

\* _write_employees, lines 634-646: one row per (applicant, name, office).
Employees(q) ==
    LET keys == {<<FactKinds[k].applicant_id, FactKinds[k].full_name,
                   FactKinds[k].xlc_operation>> : k \in Present(q)}
        of(key) == {k \in Present(q) :
                       /\ FactKinds[k].applicant_id = key[1]
                       /\ FactKinds[k].full_name = key[2]
                       /\ FactKinds[k].xlc_operation = key[3]}
        fingers(key) == {k \in of(key) : FactKinds[k].entry_type = "Finger"}
    IN  {[full_name |-> key[2], xlc_operation |-> key[3],
          entries |-> CountOf(q, of(key)),
          finger_entries |-> CountOf(q, fingers(key)),
          finger_rate |-> Percentage(CountOf(q, fingers(key)),
                                     CountOf(q, of(key)))] : key \in keys}

\* The sheet written when the queryset has no row for it.
NoData(name) == [name |-> name, columns |-> <<>>, rows |-> {}]

\* _calculate_enrollment_status with "at least" in place of "more than".
EnrollmentAtThreshold(provisional_count) ==
    IF provisional_count >= ENROLLMENT_THRESHOLD THEN "Yes" ELSE ""

\* _calculate_enrollment_status
CalculateEnrollmentStatus(provisional_count) ==
    IF provisional_count > ENROLLMENT_THRESHOLD THEN "Yes" ELSE ""

\* _format_week_column: strftime('%#d-%b') keeps the day and the month of
\* the date and drops its year.
FormatWeekColumn(date) == <<DayOf(date), MonthOf(date)>>

\* _get_unique_weeks: the week-ending dates of the whole collection, sorted.
GetUniqueWeeks(q) == Sorted({FactKinds[k].dt_end_cli_work_week : k \in Present(q)})

\* The rows of _write_provisional_detail, lines 438-449: one per
\* (office, employee, applicant, department) with a provisional entry.
ProvisionalDetail(q) ==
    LET prov == OfType(q, "Provisional Entry")
        keys == {<<FactKinds[k].xlc_operation, FactKinds[k].full_name,
                   FactKinds[k].applicant_id, FactKinds[k].bu_dept_name>> :
                    k \in prov}
        of(key) == {k \in prov :
                       /\ FactKinds[k].xlc_operation = key[1]
                       /\ FactKinds[k].full_name = key[2]
                       /\ FactKinds[k].applicant_id = key[3]
                       /\ FactKinds[k].bu_dept_name = key[4]}
    IN  {[Office |-> key[1], Employee |-> key[2], EmployeeID |-> key[3],
          Department |-> key[4],
          ProvisionalCount |-> CountOf(q, of(key)),
          Enrollment |-> CalculateEnrollmentStatus(CountOf(q, of(key)))] :
            key \in keys}

\* pivot[labels]: for every label of the list, in its order, every column
\* of the frame that carries the label.
RECURSIVE SelectColumns(_, _)
SelectColumns(labels, columns) ==
    IF labels = <<>> THEN <<>>
    ELSE SelectSeq(columns, LAMBDA c : FormatWeekColumn(c) = Head(labels))
             \o SelectColumns(Tail(labels), columns)

RECURSIVE SumSeq(_)
SumSeq(s) == IF s = <<>> THEN 0 ELSE Head(s) + SumSeq(Tail(s))

\* The week columns of the pivot of lines 326-332: the dates with a
\* provisional entry, ascending.
WeekCols(q) ==
    Sorted({FactKinds[k].dt_end_cli_work_week : k \in OfType(q, "Provisional Entry")})

\* The pivot's cell of an (office, employee) row under a week column.
PivotCell(q, site, name, week) ==
    CountOf(q, {k \in OfType(q, "Provisional Entry") :
                   /\ FactKinds[k].xlc_operation = site
                   /\ FactKinds[k].full_name = name
                   /\ FactKinds[k].dt_end_cli_work_week = week})

\* Line 340: the labels of the weeks that are pivot columns.
FormattedWeekCols(q) ==
    LET weeks == GetUniqueWeeks(q)
        kept == SelectSeq(weeks, LAMBDA w : \E i \in 1..Len(WeekCols(q)) : WeekCols(q)[i] = w)
    IN  [i \in 1..Len(kept) |-> FormatWeekColumn(kept[i])]

\* Line 364: the labels of all weeks, in date order, that some pivot column
\* carries.
WeekColOrder(q) ==
    LET weeks == GetUniqueWeeks(q)
        kept == SelectSeq(weeks, LAMBDA w :
                    \E i \in 1..Len(WeekCols(q)) :
                        FormatWeekColumn(WeekCols(q)[i]) = FormatWeekColumn(w))
    IN  [i \in 1..Len(kept) |-> FormatWeekColumn(kept[i])]

\* The week columns of the written sheet, each with the date it stands for.
ProvWeeklyColumns(q) ==
    LET cols == SelectColumns(WeekColOrder(q), WeekCols(q))
    IN  [i \in 1..Len(cols) |-> [label |-> FormatWeekColumn(cols[i]), week |-> cols[i]]]

\* The rows of _write_prov_weekly, lines 318-366.
ProvWeekly(q) ==
    LET prov == OfType(q, "Provisional Entry")
        keys == {<<FactKinds[k].xlc_operation, FactKinds[k].full_name>> : k \in prov}
        summed == SelectColumns(FormattedWeekCols(q), WeekCols(q))
        total(key) == SumSeq([i \in 1..Len(summed) |->
                                 PivotCell(q, key[1], key[2], summed[i])])
        shown == SelectColumns(WeekColOrder(q), WeekCols(q))
    IN  {[OfcName |-> key[1], FullName |-> key[2],
          cells |-> [i \in 1..Len(shown) |-> PivotCell(q, key[1], key[2], shown[i])],
          Total |-> total(key),
          Average |-> RoundHalfEven(total(key) * 10, Len(summed)),
          Enrollment |-> CalculateEnrollmentStatus(total(key))] : key \in keys}

ReportInit ==
    /\ WebIdle
    /\ WeekIdle
    /\ ConcIdle
    /\ timeEntries = <<>>
    /\ txEntries = <<>>
    /\ etlHistory = <<>>
    /\ nextId = 1
    /\ pc = "idle"
    /\ call = NoCall
    /\ prev = [path |-> "none", file |-> FileUnreadable, flag |-> FALSE,
               year |-> Null, etl |-> 0]
    /\ exc = ""
    /\ ret = NoRet
    /\ nCalls = 0
    /\ sheet = [name |-> "", columns |-> <<>>, rows |-> {}]
    /\ \E counts \in [Kinds \ RareKinds -> 0..MaxPerKind],
          rare \in SUBSET RareKinds, bulk \in BOOLEAN :
          /\ rare # {} => \A k \in Kinds \ RareKinds : counts[k] <= 1
          /\ qs = [k \in Kinds |->
                      IF k \in RareKinds THEN (IF k \in rare THEN 1 ELSE 0)
                      ELSE IF bulk /\ k = BulkKind THEN Bulk
                      ELSE counts[k]]

\* _write_prov_weekly
WriteProvWeekly ==
    /\ sheet.name = ""
    /\ sheet' = IF OfType(qs, "Provisional Entry") = {}
                THEN NoData("Prov")
                ELSE [name |-> "Prov", columns |-> ProvWeeklyColumns(qs),
                      rows |-> ProvWeekly(qs)]
    /\ UNCHANGED <<ingest, weekVars, concVars, webVars, qs>>

\* _write_provisional_detail
WriteProvisionalDetail ==
    /\ sheet.name = ""
    /\ sheet' = IF OfType(qs, "Provisional Entry") = {}
                THEN NoData("Provisional")
                ELSE [name |-> "Provisional", columns |-> <<>>,
                      rows |-> ProvisionalDetail(qs)]
    /\ UNCHANGED <<ingest, weekVars, concVars, webVars, qs>>

\* _write_by_entry_type
WriteByEntryType ==
    /\ sheet.name = ""
    /\ sheet' = IF Present(qs) = {}
                THEN NoData("By Entry Type")
                ELSE [name |-> "By Entry Type", columns |-> <<>>,
                      rows |-> ByEntryType(qs)]
    /\ UNCHANGED <<ingest, weekVars, concVars, webVars, qs>>

\* _write_employees
WriteEmployees ==
    /\ sheet.name = ""
    /\ sheet' = IF Present(qs) = {}
                THEN NoData("Employees")
                ELSE [name |-> "Employees", columns |-> <<>>,
                      rows |-> Employees(qs)]
    /\ UNCHANGED <<ingest, weekVars, concVars, webVars, qs>>

\* _get_offices: the distinct non-empty sites of the collection.
GetOffices(q) == {FactKinds[k].xlc_operation : k \in Present(q)} \ {""}

\* values('full_name', 'entry_type').annotate(count=Count('id')) pivoted on
\* full_name: the cell of one name and one entry type among the kinds S.
PivotCount(q, S, name, type) ==
    CountOf(q, {k \in S : /\ FactKinds[k].full_name = name
                          /\ FactKinds[k].entry_type = type})

\* sort_values('Grand Total', ascending=False): every order of the rows in
\* which Grand Total never grows; rows with equal totals come in any order.
RECURSIVE SortValues(_)
SortValues(rows) ==
    IF rows = {} THEN {<<>>}
    ELSE LET top == {r \in rows : \A o \in rows : o.GrandTotal <= r.GrandTotal}
         IN  UNION {{<<r>> \o t : t \in SortValues(rows \ {r})} : r \in top}

\* _write_all_pivot: one row per full_name, the four standard columns and
\* their sum.
AllPivot(q) ==
    LET names == {FactKinds[k].full_name : k \in Present(q)}
        n(name, type) == PivotCount(q, Present(q), name, type)
    IN  {[Employee |-> name,
          Finger |-> n(name, "Finger"),
          MissingCO |-> n(name, "Missing c/o"),
          Provisional |-> n(name, "Provisional Entry"),
          WriteIn |-> n(name, "Write-In"),
          GrandTotal |-> n(name, "Finger") + n(name, "Missing c/o")
                         + n(name, "Provisional Entry") + n(name, "Write-In")] :
            name \in names}

\* _write_office_sheet, lines 471-524: one row per full_name at the office,
\* Grand Total over the three non-finger columns, rows without any dropped.
OfficeSheet(q, office_name) ==
    LET office_qs == {k \in Present(q) : FactKinds[k].xlc_operation = office_name}
        names == {FactKinds[k].full_name : k \in office_qs}
        n(name, type) == PivotCount(q, office_qs, name, type)
        pivot == {[FullName |-> name,
                   MissingCO |-> n(name, "Missing c/o"),
                   Provisional |-> n(name, "Provisional Entry"),
                   WriteIn |-> n(name, "Write-In"),
                   GrandTotal |-> n(name, "Missing c/o")
                                  + n(name, "Provisional Entry")
                                  + n(name, "Write-In"),
                   Enrollment |-> CalculateEnrollmentStatus(
                                      n(name, "Provisional Entry"))] :
                     name \in names}
    IN  {r \in pivot : r.GrandTotal > 0}

\* The sheets every full report has.
FixedSheets ==
    {"CheckingTheFile", "Directions", "Data", "All", "Prov", "Write Ins",
     "Provisional"}

\* The characters of a site name or of a fixed sheet name.
Chars(s) ==
    CASE s = "Martinsburg" -> <<"M","a","r","t","i","n","s","b","u","r","g">>
      [] s = "Winchester" -> <<"W","i","n","c","h","e","s","t","e","r">>
      [] s = "Winchester/VA" ->
            <<"W","i","n","c","h","e","s","t","e","r","/","V","A">>
      [] s = "Winchester-VA" ->
            <<"W","i","n","c","h","e","s","t","e","r","-","V","A">>
      [] s = "CheckingTheFile" ->
            <<"C","h","e","c","k","i","n","g","T","h","e","F","i","l","e">>
      [] s = "Directions" -> <<"D","i","r","e","c","t","i","o","n","s">>
      [] s = "Data" -> <<"D","a","t","a">>
      [] s = "All" -> <<"A","l","l">>
      [] s = "Prov" -> <<"P","r","o","v">>
      [] s = "Write Ins" -> <<"W","r","i","t","e"," ","I","n","s">>
      [] s = "Provisional" -> <<"P","r","o","v","i","s","i","o","n","a","l">>

invalid_chars == {":", "\\", "/", "?", "*", "[", "]"}

\* _write_office_sheet, lines 529-535: the first 31 characters of the site
\* name, every invalid character replaced by a hyphen.
SheetName(office_name) ==
    LET cut == IF Len(office_name) > 31 THEN SubSeq(office_name, 1, 31)
               ELSE office_name
    IN  [i \in 1..Len(cut) |->
            IF cut[i] \in invalid_chars THEN "-" ELSE cut[i]]

\* _write_all_pivot
WriteAllPivot ==
    /\ sheet.name = ""
    /\ IF Present(qs) = {}
       THEN sheet' = NoData("All")
       ELSE \E rows \in SortValues(AllPivot(qs)) :
               sheet' = [name |-> "All", columns |-> <<>>, rows |-> rows]
    /\ UNCHANGED <<ingest, weekVars, concVars, webVars, qs>>

\* _write_office_sheet for one of the offices: nothing is written when no
\* row is left.  The sheet is kept under the site's own name.
WriteOfficeSheet(office_name) ==
    /\ sheet.name = ""
    /\ sheet' = IF OfficeSheet(qs, office_name) = {}
                THEN sheet
                ELSE [name |-> office_name, columns |-> <<>>,
                      rows |-> OfficeSheet(qs, office_name)]
    /\ UNCHANGED <<ingest, weekVars, concVars, webVars, qs>>

\* generate_full_report: the sheets of the workbook, each with the name
\* it was written under and, for a site sheet, the site it was written for.
\* Two writes under one name land on one worksheet.
GenerateFullReport ==
    /\ sheet.name = ""
    /\ sheet' = [name |-> "workbook", columns |-> <<>>,
                 rows |-> {[sheet_name |-> Chars(f), office |-> ""] :
                              f \in FixedSheets}
                          \cup {[sheet_name |-> SheetName(Chars(o)),
                                 office |-> o] :
                                  o \in {x \in GetOffices(qs) :
                                            OfficeSheet(qs, x) # {}}}]
    /\ UNCHANGED <<ingest, weekVars, concVars, webVars, qs>>

ReportNext ==
    \/ WriteProvWeekly
    \/ WriteProvisionalDetail
    \/ WriteByEntryType
    \/ WriteEmployees
    \/ WriteAllPivot
    \/ \E office \in GetOffices(qs) : WriteOfficeSheet(office)
    \/ GenerateFullReport

ReportSpec == ReportInit /\ [][ReportNext]_vars


(***************************************************************************)
(* Properties of the report sheets.                                        *)
(***************************************************************************)
Classifications == {"Finger", "Provisional Entry", "Write-In", "Missing c/o"}

\* The rate the entry-type sheet shows for a classification, in tenths of a
\* percent; 0 when the sheet has no row for it.
RateOf(type) ==
    IF \E r \in sheet.rows : r.entry_type = type
    THEN (CHOOSE r \in sheet.rows : r.entry_type = type).percentage
    ELSE 0

TotalCount == CountOf(qs, Present(qs))

\* C17 as stated: the four rounded rates add up to at most 100, each lies
\* in [0, 100], and a rate is 0 exactly when its count is 0.
C17_RatesSumTo100 ==
    /\ sheet.name = "By Entry Type" /\ sheet.rows # {} =>
          /\ RateOf("Finger") + RateOf("Provisional Entry")
                + RateOf("Write-In") + RateOf("Missing c/o") <= 1000
          /\ \A ty \in Classifications :
                /\ RateOf(ty) \in 0..1000
                /\ RateOf(ty) = 0 <=> CountOf(qs, OfType(qs, ty)) = 0
    /\ sheet.name = "Employees" =>
          \A r \in sheet.rows :
             /\ r.finger_rate \in 0..1000
             /\ r.finger_rate = 0 <=> r.finger_entries = 0

\* C17, amended: the four rounded rates add up to at most 100.2, each lies
\* in [0, 100], a rate is 0 whenever its count is 0, and a rate of 0 means
\* the count is at most 0.05% of the total.
C17_RatesWithinRounding ==
    /\ sheet.name = "By Entry Type" /\ sheet.rows # {} =>
          /\ RateOf("Finger") + RateOf("Provisional Entry")
                + RateOf("Write-In") + RateOf("Missing c/o") <= 1002
          /\ \A ty \in Classifications :
                /\ RateOf(ty) \in 0..1000
                /\ CountOf(qs, OfType(qs, ty)) = 0 => RateOf(ty) = 0
                /\ RateOf(ty) = 0 => 2000 * CountOf(qs, OfType(qs, ty)) <= TotalCount
    /\ sheet.name = "Employees" =>
          \A r \in sheet.rows :
             /\ r.finger_rate \in 0..1000
             /\ r.finger_entries = 0 => r.finger_rate = 0
             /\ r.finger_rate = 0 => 2000 * r.finger_entries <= r.entries

\* Seven facts split 2, 2, 2, 1: 28.6 + 28.6 + 28.6 + 14.3 = 100.1.
C17_Witness ==
    /\ sheet.name = "By Entry Type"
    /\ TotalCount = 7
    /\ RateOf("Finger") + RateOf("Provisional Entry")
          + RateOf("Write-In") + RateOf("Missing c/o") = 1001

\* C18: the enrollment flag is 'Yes' exactly when the provisional count it
\* is computed from is 3 or more, and blank for 0, 1 and 2.
C18_EnrollmentAboveTwo ==
    /\ sheet.name = "Provisional" =>
          \A r \in sheet.rows :
             /\ r.ProvisionalCount >= 3 => r.Enrollment = "Yes"
             /\ r.ProvisionalCount \in 0..2 => r.Enrollment = ""
    /\ sheet.name = "Prov" =>
          \A r \in sheet.rows :
             /\ r.Total >= 3 => r.Enrollment = "Yes"
             /\ r.Total \in 0..2 => r.Enrollment = ""

\* A row counting 3 is flagged beside a row counting 2 that is not.
C18_Witness ==
    /\ sheet.name = "Provisional"
    /\ \E r \in sheet.rows : r.ProvisionalCount = 3 /\ r.Enrollment = "Yes"
    /\ \E r \in sheet.rows : r.ProvisionalCount = 2 /\ r.Enrollment = ""

\* The provisional entries of an employee in the filtered set.
ProvisionalOf(id) ==
    {k \in OfType(qs, "Provisional Entry") : FactKinds[k].applicant_id = id}

\* C19: in the provisional-detail sheet every employee with a provisional
\* entry has exactly one row, counting all the employee's provisional
\* entries and flagged exactly when that total exceeds 2.
C19_OneRowPerEmployee ==
    sheet.name = "Provisional" =>
        \A id \in {FactKinds[k].applicant_id : k \in OfType(qs, "Provisional Entry")} :
           /\ Cardinality({r \in sheet.rows : r.EmployeeID = id}) = 1
           /\ \A r \in sheet.rows :
                 r.EmployeeID = id =>
                    /\ r.ProvisionalCount = CountOf(qs, ProvisionalOf(id))
                    /\ r.Enrollment = "Yes" <=> CountOf(qs, ProvisionalOf(id)) > 2

\* The provisional entries of an employee at a site in the filtered set.
ProvisionalAt(site, name) ==
    {k \in OfType(qs, "Provisional Entry") :
        FactKinds[k].xlc_operation = site /\ FactKinds[k].full_name = name}

\* C20: in the weekly provisional sheet every row's Total is the number of
\* provisional entries of the employee at the site, the week columns run in
\* date order with each observed week once, and the flag is set exactly
\* when Total exceeds 2, also for a filtered set of more than one year.
C20_WeeklyTotals ==
    sheet.name = "Prov" =>
        /\ \A i \in 1..Len(sheet.columns) : \A j \in 1..Len(sheet.columns) :
              i < j => sheet.columns[i].week < sheet.columns[j].week
        /\ \A r \in sheet.rows :
              /\ r.Total = CountOf(qs, ProvisionalAt(r.OfcName, r.FullName))
              /\ r.Total = SumSeq(r.cells)
              /\ r.Enrollment = "Yes" <=> r.Total > 2


(***************************************************************************)
(* The pivot sheet, the site sheets and the workbook's sheet names.        *)
(***************************************************************************)
\* The applicants of a set of kinds, and an applicant's rows among them.
Applicants(S) == {FactKinds[k].applicant_id : k \in S}

FactsOf(S, id) == {k \in S : FactKinds[k].applicant_id = id}

\* C21: the pivot sheet has one row per employee of the filtered set, the
\* four classification columns of the row count the employee's facts of
\* that classification, Grand Total is their sum, and Grand Total never
\* grows from one row to the next.
C21_PivotRowPerEmployee ==
    (sheet.name = "All" /\ Present(qs) # {}) =>
        LET rows == sheet.rows
            n(id, type) ==
                CountOf(qs, {k \in FactsOf(Present(qs), id) :
                                FactKinds[k].entry_type = type})
        IN  /\ Len(rows) = Cardinality(Applicants(Present(qs)))
            /\ \A id \in Applicants(Present(qs)) :
                  \E i \in 1..Len(rows) :
                     /\ \E k \in FactsOf(Present(qs), id) :
                           rows[i].Employee = FactKinds[k].full_name
                     /\ rows[i].Finger = n(id, "Finger")
                     /\ rows[i].MissingCO = n(id, "Missing c/o")
                     /\ rows[i].Provisional = n(id, "Provisional Entry")
                     /\ rows[i].WriteIn = n(id, "Write-In")
            /\ \A i \in 1..Len(rows) :
                  rows[i].GrandTotal = rows[i].Finger + rows[i].MissingCO
                                       + rows[i].Provisional + rows[i].WriteIn
            /\ \A i \in 1..Len(rows) : \A j \in 1..Len(rows) :
                  i < j => rows[i].GrandTotal >= rows[j].GrandTotal

\* C22: a site sheet lists exactly the employees with a fact at the site
\* whose classification is not Finger, and a row is flagged exactly when
\* the employee's provisional entries at the site number more than 2.
C22_OfficeSheetListsNonFinger ==
    \A site \in GetOffices(qs) :
        sheet.name = site =>
            LET at == {k \in Present(qs) : FactKinds[k].xlc_operation = site}
                nonFinger == {k \in at : FactKinds[k].entry_type # "Finger"}
                provisional(id) ==
                    CountOf(qs, {k \in FactsOf(at, id) :
                                    FactKinds[k].entry_type = "Provisional Entry"})
            IN  /\ Cardinality(sheet.rows) = Cardinality(Applicants(nonFinger))
                /\ \A id \in Applicants(nonFinger) :
                      \E r \in sheet.rows :
                         /\ \E k \in FactsOf(nonFinger, id) :
                               r.FullName = FactKinds[k].full_name
                         /\ r.Enrollment = "Yes" <=> provisional(id) > 2

\* C30: the workbook has a sheet for every site with a missing clock-out,
\* a provisional entry or a write-in, and no two of its sheets, site sheets
\* or fixed sheets, were written under one name.
C30_SiteSheetsDistinct ==
    sheet.name = "workbook" =>
        LET active == {FactKinds[k].xlc_operation :
                          k \in OfType(qs, "Missing c/o")
                                \cup OfType(qs, "Provisional Entry")
                                \cup OfType(qs, "Write-In")}
        IN  /\ \A o \in active : \E r \in sheet.rows : r.office = o
            /\ \A r1 \in sheet.rows : \A r2 \in sheet.rows :
                  r1.sheet_name = r2.sheet_name => r1 = r2


(***************************************************************************)
(* The API views.  A view builds TimeEntryFilter from the request's query  *)
(* parameters and hands the resulting queryset to KPICalculator or to      *)
(* BSTTReportGenerator.  Of the filter's parameters the two numeric ones,  *)
(* year and week_year, are kept; a parameter's text is its characters.     *)
(***************************************************************************)
\* A parameter left out, two years, and a text that is no number.
ParamValues ==
    {<<>>, <<"2", "0", "2", "3">>, <<"2", "0", "2", "4">>, <<"a", "b", "c">>}

Digit(c) ==
    CASE c = "0" -> 0 [] c = "1" -> 1 [] c = "2" -> 2 [] c = "3" -> 3
      [] c = "4" -> 4 [] c = "5" -> 5 [] c = "6" -> 6 [] c = "7" -> 7
      [] c = "8" -> 8 [] c = "9" -> 9 [] OTHER -> Null

\* NumberFilter's DecimalField.clean and int(): the number a text of digits
\* denotes, Null for a text that denotes none.
RECURSIVE ParseNumber(_)
ParseNumber(text) ==
    IF text = <<>> \/ \E i \in 1..Len(text) : Digit(text[i]) = Null THEN Null
    ELSE IF Len(text) = 1 THEN Digit(text[1])
    ELSE 10 * ParseNumber(SubSeq(text, 1, Len(text) - 1)) + Digit(text[Len(text)])

\* filterset.is_valid(): every parameter given cleans to a number.
IsValid(params) ==
    /\ params.year # <<>> => ParseNumber(params.year) # Null
    /\ params.week_year # <<>> => ParseNumber(params.week_year) # Null

\* filterset.qs for valid parameters: a parameter left out filters nothing.
FilterQs(params, queryset) ==
    SelectSeq(queryset,
              LAMBDA e : /\ params.year # <<>>
                            => e["year"] = ParseNumber(params.year)
                         /\ params.week_year # <<>>
                            => e["week_year"] = ParseNumber(params.week_year))

\* get_filtered_queryset of KPIBaseView and of ReportBaseView
GetFilteredQueryset(params, queryset) ==
    IF IsValid(params) THEN FilterQs(params, queryset) ELSE queryset

\* The stored facts: some of the old rows, their week columns filled.
FilterInit ==
    /\ WeekIdle
    /\ ConcIdle
    /\ ReportIdle
    /\ \E kept \in SUBSET (1..Len(LegacyRows)) :
          timeEntries = SelectSeq([i \in 1..Len(LegacyRows) |-> Populate(LegacyRows[i])],
                                  LAMBDA e : e["id"] \in kept)
    /\ txEntries = timeEntries
    /\ nextId = Len(LegacyRows) + 1
    /\ etlHistory = <<>>
    /\ pc = "idle"
    /\ call = NoCall
    /\ prev = [path |-> "none", file |-> FileUnreadable, flag |-> FALSE,
               year |-> Null, etl |-> 0]
    /\ exc = ""
    /\ ret = NoRet
    /\ nCalls = 0
    /\ \E year \in ParamValues, week_year \in ParamValues :
          request = [year |-> year, week_year |-> week_year, view |-> "",
                     code |-> 0, queryset |-> <<>>]
    /\ uploads = <<>>
    /\ admin = [pc |-> "idle", current |-> 0, queue |-> <<>>, returned |-> NoRet]

\* KPIView.get: the calculator is given the queryset.
KPIViewGet ==
    /\ request.code = 0
    /\ request' = [request EXCEPT
                      !.view = "kpi",
                      !.code = 200,
                      !.queryset = GetFilteredQueryset(request, timeEntries)]
    /\ UNCHANGED <<ingest, weekVars, concVars, reportVars, uploads, admin>>

\* FullReportView.get: int(year) raises ValueError on a year that is no
\* number, before the generator is built, and the request ends in a server
\* error; otherwise the generator is given the queryset.
FullReportViewGet ==
    /\ request.code = 0
    /\ request' = IF request.year # <<>> /\ ParseNumber(request.year) = Null
                  THEN [request EXCEPT !.view = "report", !.code = 500]
                  ELSE [request EXCEPT
                           !.view = "report",
                           !.code = 200,
                           !.queryset = GetFilteredQueryset(request, timeEntries)]
    /\ UNCHANGED <<ingest, weekVars, concVars, reportVars, uploads, admin>>

FilterNext ==
    \/ KPIViewGet
    \/ FullReportViewGet

FilterSpec == FilterInit /\ [][FilterNext]_vars

\* C23: a request with a malformed filter parameter is answered with a
\* validation error, and no calculation or report runs on any facts for
\* it, the unfiltered facts included.
C23_MalformedFilterRejected ==
    (/\ request.code # 0
     /\ \E text \in {request.year, request.week_year} :
           text # <<>> /\ ParseNumber(text) = Null)
        => /\ request.code = 400
           /\ request.queryset = <<>>


(***************************************************************************)
(* The audit log, the target year and the two paths side by side.          *)
(***************************************************************************)
\* C24: the audit log only grows, a step changes no record but the running
\* call's own, and whenever a call has returned the log holds one record
\* per call made, whatever the call's outcome.
C24_AuditAppendOnly ==
    [][/\ Len(etlHistory') >= Len(etlHistory)
       /\ \A i \in 1..Len(etlHistory) :
             i # call'.etl => etlHistory'[i] = etlHistory[i]
       /\ pc' = "idle" => Len(etlHistory') = nCalls']_vars

\* C25: an audit record that is no longer 'running' has a duration and a
\* message, and row count 0 when it is 'failed'; after a successful call
\* the record's row count is the number of facts inserted, which is the
\* number of source rows and, for an upload, the count returned.
C25_FinalizedAuditComplete ==
    /\ \A i \in 1..Len(etlHistory) :
          etlHistory[i].status # "running" =>
             /\ etlHistory[i].duration_seconds # "None"
             /\ etlHistory[i].message # ""
             /\ etlHistory[i].status = "failed"
                   => etlHistory[i].records_processed = 0
    /\ Succeeded =>
          /\ etlHistory[call.etl].records_processed = Len(Inserted)
          /\ Len(Inserted) = Len(call.file.rows)
          /\ call.path = "upload" => ret.records = Len(Inserted)

\* The facts of every year but one.
OtherYears(table, year) == SelectSeq(table, LAMBDA e : e["year"] # year)

\* C27: when an ingestion for year Y has returned, every fact it inserted
\* has year Y and the facts of every other year are those stored before.
C27_OnlyTargetYear ==
    Returned =>
        /\ \A i \in 1..Len(Inserted) : Inserted[i]["year"] = call.year
        /\ OtherYears(timeEntries, call.year) = OtherYears(call.before, call.year)

\* The raw column names of the alias tables, and one that is in neither.
AliasNames ==
    {"year", "OfcName", "Ofc_Name", "XLC Operation", "XLC_Operation",
     "dtEndCliWorkWeek", "Dt_End_CLI_Work_Week", "WorkDate", "Work_Date",
     "Date Range", "Date_Range", "ApplicantID", "Applicant_ID", "LastName",
     "Last_Name", "FirstName", "First_Name", "FullName", "Full_Name",
     "EmployeeTypeID", "Employee_Type_ID", "ShiftNumber", "Shift_Number",
     "BUDeptName", "BU_Dept_Name", "Allocation_Method", "dtTimeStart",
     "Dt_Time_Start", "dtTimeEnd", "Dt_Time_End", "RegHours", "Reg_Hours",
     "OTHours", "OT_Hours", "DTHours", "DT_Hours", "HolWrkHours",
     "Hol_Wrk_Hours", "Total Hours", "Total_Hours", "ClockIn_LOcal",
     "Clock_In_Local", "ClockIn_Tries", "Clock_In_Tries", "ClockIn_Method",
     "Clock_In_Method", "ClockOut_Local", "Clock_Out_Local",
     "ClockOut_Tries", "Clock_Out_Tries", "ClockOut_Method",
     "Clock_Out_Method", "EntryType", "Entry_Type", "Notes"}

\* The path the current call did not take.
OtherPath == IF call.path = "upload" THEN "sync" ELSE "upload"

\* C28: the two alias tables give every raw column name the same canonical
\* field, and a successful sync, or upload with replace_existing, leaves
\* the facts the other path's steps give for the same table, year and
\* store: the earlier facts of the other years, then the table's rows.
C28_PathsEquivalent ==
    /\ \A raw \in AliasNames : Rename("upload", raw) = Rename("sync", raw)
    /\ (Succeeded /\ (call.path = "upload" => call.flag)) =>
          /\ SelectSeq(timeEntries, LAMBDA e : e["id"] \in Ids(call.before))
                = DeleteYear(call.before, call.year)
          /\ \E winner \in call.file.header :
                Content(Inserted)
                   = Content(Entries(WeekAlign(
                         Normalize(OtherPath, call.file, call.year,
                                   Pick(OtherPath, call.file.header, winner)))))

\* A sync has succeeded on the table and year of the replacing upload
\* before it, and the year's facts are as the upload left them.
C28_Witness ==
    /\ Succeeded
    /\ call.path = "sync"
    /\ prev.path = "upload"
    /\ prev.flag
    /\ prev.file = call.file
    /\ prev.year = call.year
    /\ Len(Inserted) = 2
    /\ Content(YearFacts(timeEntries, call.year))
          = Content(YearFacts(call.before, call.year))
    /\ Len(YearFacts(call.before, call.year)) = 2


\* A row as the backfill may leave it: nothing but the week columns differs.
SameButWeek(old, new) ==
    new = [old EXCEPT !["week_number"] = new["week_number"],
                      !["week_year"] = new["week_year"]]

\* C26: the backfill ends; when it ends no fact with a week-ending date
\* lacks week_number or week_year; and a pass of it changes nothing but
\* the week columns, and those only on facts whose week_number is null.
C26_BackfillTerminates ==
    /\ <>(pc # "migrate")
    /\ [][(pc = "migrate" /\ pc' # "migrate") =>
             \A i \in 1..Len(timeEntries') :
                timeEntries'[i]["dt_end_cli_work_week"] # Null =>
                   /\ timeEntries'[i]["week_number"] # Null
                   /\ timeEntries'[i]["week_year"] # Null]_vars
    /\ [][pc = "migrate" =>
             /\ Len(timeEntries') = Len(timeEntries)
             /\ \A i \in 1..Len(timeEntries) :
                   /\ SameButWeek(timeEntries[i], timeEntries'[i])
                   /\ timeEntries[i]["week_number"] # Null
                         => timeEntries'[i] = timeEntries[i]]_vars

\* The backfill has ended, no ingestion has been called since, and each of
\* the table's three rows has its week number.
C26_Witness ==
    /\ pc = "idle"
    /\ call.path = "none"
    /\ Len(timeEntries) = 3
    /\ \A i \in 1..3 : timeEntries[i]["week_number"] # Null

(***************************************************************************)
(* DataUploadAdmin.  An upload row is the three fields the admin writes.   *)
(* One admin request is handled at a time; saving a change to an existing  *)
(* upload (save_model with change=True) writes none of the three fields.   *)
(***************************************************************************)
\* Rows of the DataUpload table.
MaxUploads == 2

DataUpload(status, records_processed, error_message) ==
    [status |-> status, records_processed |-> records_processed,
     error_message |-> error_message]

\* What process_uploaded_file gives back: its three return statements.
Returns ==
    {Tuple(FALSE, "Uploaded file is empty", 0),
     Tuple(FALSE, "Error processing file: NOT NULL constraint failed", 0)}
    \cup {Tuple(TRUE, "Successfully imported " \o ToString(n) \o " records", n) :
             n \in 1..2}

\* The rows found stored: one never processed, one left in 'processing' by
\* a run that was cut short, one processed each way.
StoredUploads ==
    {DataUpload("pending", 0, ""), DataUpload("processing", 0, ""),
     DataUpload("success", 2, ""),
     DataUpload("failed", 0, "Uploaded file is empty")}

\* The selection as it is, without the filter on status.
AllSelected(table, selected) == selected

\* queryset.filter(status__in=['pending', 'failed'])
PendingOrFailed(table, selected) ==
    {i \in selected : table[i].status \in {"pending", "failed"}}

\* The filtered selection under Meta.ordering, latest upload first.
Queue(table, selected) ==
    LET asc == Sorted(PendingOrFailed(table, selected))
    IN  [k \in 1..Len(asc) |-> asc[Len(asc) + 1 - k]]

AdminInit ==
    /\ WeekIdle
    /\ ConcIdle
    /\ ReportIdle
    /\ timeEntries = <<>>
    /\ txEntries = <<>>
    /\ etlHistory = <<>>
    /\ nextId = 1
    /\ pc = "idle"
    /\ call = NoCall
    /\ prev = [path |-> "none", file |-> FileUnreadable, flag |-> FALSE,
               year |-> Null, etl |-> 0]
    /\ exc = ""
    /\ ret = NoRet
    /\ nCalls = 0
    /\ request = [year |-> <<>>, week_year |-> <<>>, view |-> "", code |-> 0,
                  queryset |-> <<>>]
    /\ \E n \in 0..MaxUploads : uploads \in [1..n -> StoredUploads]
    /\ admin = [pc |-> "idle", current |-> 0, queue |-> <<>>, returned |-> NoRet]

\* save_model for a new upload: the row is saved 'pending' and handed to
\* _process_single_upload.
SaveModel ==
    /\ admin.pc = "idle"
    /\ Len(uploads) < MaxUploads
    /\ uploads' = Append(uploads, DataUpload("pending", 0, ""))
    /\ admin' = [admin EXCEPT !.pc = "start", !.current = Len(uploads) + 1,
                              !.queue = <<>>]
    /\ UNCHANGED <<ingest, weekVars, concVars, reportVars, request>>

\* process_uploads: the loop is entered with the filtered selection.
ProcessUploads(selected) ==
    /\ admin.pc = "idle"
    /\ admin' = IF Queue(uploads, selected) = <<>> THEN admin
                ELSE [admin EXCEPT !.pc = "start",
                                   !.current = Head(Queue(uploads, selected)),
                                   !.queue = Tail(Queue(uploads, selected))]
    /\ UNCHANGED <<ingest, weekVars, concVars, reportVars, request, uploads>>

\* Lines 101-102 and 125-126: the upload is saved as 'processing'.
StartProcessing ==
    /\ admin.pc = "start"
    /\ uploads' = [uploads EXCEPT ![admin.current].status = "processing"]
    /\ admin' = [admin EXCEPT !.pc = "call"]
    /\ UNCHANGED <<ingest, weekVars, concVars, reportVars, request>>

\* Lines 104-116 and 128-140: process_uploaded_file returns and the upload
\* is saved with the outcome; the loop goes on to the next upload.
ProcessReturn(result) ==
    /\ admin.pc = "call"
    /\ uploads' = [uploads EXCEPT ![admin.current] =
                      IF result.success
                      THEN DataUpload("success", result.records, "")
                      ELSE DataUpload("failed", result.records, result.message)]
    /\ admin' = IF admin.queue = <<>>
                THEN [pc |-> "idle", current |-> 0, queue |-> <<>>,
                      returned |-> result]
                ELSE [pc |-> "start", current |-> Head(admin.queue),
                      queue |-> Tail(admin.queue), returned |-> result]
    /\ UNCHANGED <<ingest, weekVars, concVars, reportVars, request>>

AdminNext ==
    \/ SaveModel
    \/ \E selected \in SUBSET (1..Len(uploads)) : ProcessUploads(selected)
    \/ StartProcessing
    \/ \E result \in Returns : ProcessReturn(result)

AdminSpec == AdminInit /\ [][AdminNext]_vars

\* C29: an upload's status changes only from 'pending' or 'failed' to
\* 'processing' and from 'processing' to 'success' or 'failed'; when
\* processing returns the upload is 'success' with the returned count and
\* no error message if success was returned, and otherwise 'failed' with
\* the returned message; a 'success' upload is never touched again.
C29_UploadStatusMoves ==
    [][/\ \A i \in 1..Len(uploads) :
             /\ uploads'[i].status # uploads[i].status =>
                   \/ /\ uploads[i].status \in {"pending", "failed"}
                      /\ uploads'[i].status = "processing"
                   \/ /\ uploads[i].status = "processing"
                      /\ uploads'[i].status \in {"success", "failed"}
             /\ uploads[i].status = "success" => uploads'[i] = uploads[i]
       /\ (admin.pc = "call" /\ admin'.pc # "call") =>
             /\ uploads'[admin.current].status
                   = IF admin'.returned.success THEN "success" ELSE "failed"
             /\ uploads'[admin.current].records_processed = admin'.returned.records
             /\ uploads'[admin.current].error_message
                   = IF admin'.returned.success THEN ""
                     ELSE admin'.returned.message]_vars

\* The bulk action has gone through two uploads: the first came back
\* imported, the second failed with the message now stored on it.
C29_Witness ==
    /\ admin.pc = "idle"
    /\ ~admin.returned.success
    /\ admin.returned.value = "tuple"
    /\ Len(uploads) = 2
    /\ uploads[2] = DataUpload("success", 1, "")
    /\ uploads[1] = DataUpload("failed", 0, admin.returned.message)
    /\ admin.returned.message # "Uploaded file is empty"

====
